---- MODULE Spec2Model ----
(***************************************************************************)
(* A model of fpdf2's vector drawing engine (fpdf/drawing.py and           *)
(* fpdf/drawing_primitives.py): graphics styles and their merge, path      *)
(* elements, the PaintedPath builder, the GraphicsContext tree with its    *)
(* render and bounding-box passes, and copy-on-insert.                     *)
(*                                                                         *)
(* Numbers.  Every coordinate, width and opacity is a fixed-point integer  *)
(* counting 1/Unit (Unit = 10^(Precision+1)), so that halves and the       *)
(* rounding of number_to_str are exact.  The linear part (a, b, c, d) of a *)
(* Transform is kept as plain integers: the model draws transforms with    *)
(* integer linear parts, and plain * fixed-point is fixed-point.           *)
(*                                                                         *)
(* Python values of mixed type (INHERIT, None, numbers, enum members,      *)
(* colours) are records tagged by the field t.                             *)
(*                                                                         *)
(* Rendered text.  A rendered string is a sequence of operator records     *)
(* [op, args, src]: args are the operand words as number_to_str writes     *)
(* them, op is the operator word, and src names the class whose render     *)
(* emitted it (the annotation render_debug prints).  " ".join is the       *)
(* concatenation of such sequences; Words gives the emitted text, word by  *)
(* word.                                                                   *)
(***************************************************************************)
EXTENDS Integers, Sequences, FiniteSets, TLC

VARIABLES
    parent,     \* style domain: first argument of GraphicsStyle.merge
    child,      \* style domain: second argument of GraphicsStyle.merge
    merged,     \* style domain: the result of the last merge
    resolved,   \* style domain: the result of the last resolve_paint_rule
    stylePc,    \* style domain: which call has been made
    elSeq,      \* element domain: the elements rendered so far, in order
    elOut,      \* element domain: what rendering them gave (ops, last item, start point)
    absOut,     \* element domain: the same for the sequence with absolute elements
    path,       \* path domain: the PaintedPath under construction
    calls,      \* path domain: the builder calls made on it, in order
    pathOut,    \* path domain: None, or what path.render returned
    clip,       \* clip domain: the ClippingPath under construction
    shape,      \* clip domain: the PaintedPath it is the clipping path of
    clipN,      \* clip domain: the number of calls made on the two
    clipOut,    \* clip domain: None, or what a render returned
    box,        \* box domain: the tree under construction (a PaintedPath or GraphicsContext)
    boxN,       \* box domain: the number of calls made on it
    boxOut,     \* box domain: None, or what bounding_box returned
    callerItem, \* heap domain: the PaintedPath object the caller holds and changes
    subitems,   \* heap domain: DrawingContext._subitems of a drawing context
    subitemsLog, \* heap domain: per subitem, how it was added, what it rendered to then
    holder,     \* heap domain: a GraphicsContext the caller adds the object to
    holderLog,  \* heap domain: per path item, how it was added, its render and box then
    heapN,      \* heap domain: the number of calls made
    heapLast,   \* heap domain: None, or the add_item or deepcopy call just made and its outcome
    heapRefused, \* heap domain: the number of calls refused with RuntimeError so far
    numA, \* num domain: first argument given to number_to_str
    numB, \* num domain: second argument given to number_to_str
    numOut,\* num domain: None, or the two texts number_to_str returned
    mergeA, \* box merge domain: the box A
    mergeB, \* box merge domain: the box B
    mergeOut,\* box merge domain: None, or A.merge(B), B.merge(A), A.merge(empty) and what == said of them
    assocStyles, \* assoc domain: the three styles A, B and C
    assocN, \* assoc domain: the number of assignments made to them
    assocOut,\* assoc domain: None, or merge(merge(A, B), C) and merge(A, merge(B, C))
    invT, \* inv domain: the transform T
    invP, \* inv domain: the point P
    invOut,\* inv domain: None, or what T.inverse() and P @ T @ T.inverse() gave
    gradStops, \* grad domain: the stops handed to shape_linear_gradient or shape_radial_gradient, (offset, colour) pairs
    gradOut,\* grad domain: None, or what the call returned or raised
    palColors, \* pal domain: the colours handed to the Gradient constructor
    palOut,\* pal domain: None, or what the constructor returned or raised
    compBackdrop, \* comp domain: the PaintedPath given as backdrop
    compSource, \* comp domain: the PaintedPath given as source
    compOut,\* comp domain: None, or the mode, the arguments and the result of PaintComposite.render
    asgStyle, \* asg domain: the GraphicsStyle that is assigned to
    asgN, \* asg domain: the number of assignments made
    asgOut,\* asg domain: None, or the last assignment: name, value, the style before it, the exception
    degShape, \* degen domain: the shape chosen
    degEnclosing, \* degen domain: the enclosing box chosen
    degOut,\* degen domain: the shape measured and merged, or None
    bezStart, \* bez domain: the start point
    bezCurve, \* bez domain: the curve
    bezOut,\* bez domain: the curve measured, or None
    ctxStyles, \* ctx domain: the ambient style and the styles of the two contexts
    ctxTransform, \* ctx domain: the transform of the inner context, or None
    ctxN, \* ctx domain: the number of assignments made
    ctxOut,\* ctx domain: the rendered tree, or None
    emSubitems, \* empty domain: the sub-items of the drawing context
    emOut,\* empty domain: the rendered drawing context, or None
    agSeq, \* agree domain: the path items of the context
    agOut,\* agree domain: the context measured and rendered, or None
    balSubitems, \* bal domain: the sub-items of the drawing context
    balOut,\* bal domain: the rendered drawing context, or None
    pntObjects, \* paint domain: the paint objects by identity
    pntItem, \* paint domain: the item of the caller
    pntHeld, \* paint domain: the copy the holder keeps, or None
    pntAtInsert,\* paint domain: what the copy rendered when it was inserted
    arcLast, \* arc domain: the current point of the path
    arcEl, \* arc domain: the element added last, or None
    arcOut \* arc domain: the element measured and rendered last with both outcomes, or None

styleVars == <<parent, child, merged, resolved, stylePc>>

elemVars == <<elSeq, elOut, absOut>>

pathVars == <<path, calls, pathOut>>

clipVars == <<clip, shape, clipN, clipOut>>

boxVars == <<box, boxN, boxOut>>

heapVars == <<callerItem, subitems, subitemsLog, holder, holderLog, heapN, heapLast, heapRefused>>

numVars == <<numA, numB, numOut>>

boxMergeVars == <<mergeA, mergeB, mergeOut>>

assocVars == <<assocStyles, assocN, assocOut>>

invVars == <<invT, invP, invOut>>

gradVars == <<gradStops, gradOut>>

palVars == <<palColors, palOut>>

compVars == <<compBackdrop, compSource, compOut>>

asgVars == <<asgStyle, asgN, asgOut>>

degenVars == <<degShape, degEnclosing, degOut>>

bezVars == <<bezStart, bezCurve, bezOut>>

ctxVars == <<ctxStyles, ctxTransform, ctxN, ctxOut>>

emptyVars == <<emSubitems, emOut>>

agreeVars == <<agSeq, agOut>>

balVars == <<balSubitems, balOut>>

paintVars == <<pntObjects, pntItem, pntHeld, pntAtInsert>>

arcVars == <<arcLast, arcEl, arcOut>>

vars == <<styleVars, elemVars, pathVars, clipVars, boxVars, heapVars, numVars, boxMergeVars, assocVars, invVars, gradVars, palVars, compVars, asgVars, degenVars, bezVars, ctxVars, emptyVars, agreeVars, balVars, paintVars, arcVars>>

\* what the actions of one domain leave alone: the variables of the other domains
notStyleVars == <<elemVars, pathVars, clipVars, boxVars, heapVars, numVars, boxMergeVars, assocVars, invVars, gradVars, palVars, compVars, asgVars, degenVars, bezVars, ctxVars, emptyVars, agreeVars, balVars, paintVars, arcVars>>

notElemVars == <<styleVars, pathVars, clipVars, boxVars, heapVars, numVars, boxMergeVars, assocVars, invVars, gradVars, palVars, compVars, asgVars, degenVars, bezVars, ctxVars, emptyVars, agreeVars, balVars, paintVars, arcVars>>

notPathVars == <<styleVars, elemVars, clipVars, boxVars, heapVars, numVars, boxMergeVars, assocVars, invVars, gradVars, palVars, compVars, asgVars, degenVars, bezVars, ctxVars, emptyVars, agreeVars, balVars, paintVars, arcVars>>

notClipVars == <<styleVars, elemVars, pathVars, boxVars, heapVars, numVars, boxMergeVars, assocVars, invVars, gradVars, palVars, compVars, asgVars, degenVars, bezVars, ctxVars, emptyVars, agreeVars, balVars, paintVars, arcVars>>

notBoxVars == <<styleVars, elemVars, pathVars, clipVars, heapVars, numVars, boxMergeVars, assocVars, invVars, gradVars, palVars, compVars, asgVars, degenVars, bezVars, ctxVars, emptyVars, agreeVars, balVars, paintVars, arcVars>>

notHeapVars == <<styleVars, elemVars, pathVars, clipVars, boxVars, numVars, boxMergeVars, assocVars, invVars, gradVars, palVars, compVars, asgVars, degenVars, bezVars, ctxVars, emptyVars, agreeVars, balVars, paintVars, arcVars>>

notNumVars == <<styleVars, elemVars, pathVars, clipVars, boxVars, heapVars, boxMergeVars, assocVars, invVars, gradVars, palVars, compVars, asgVars, degenVars, bezVars, ctxVars, emptyVars, agreeVars, balVars, paintVars, arcVars>>

notBoxMergeVars == <<styleVars, elemVars, pathVars, clipVars, boxVars, heapVars, numVars, assocVars, invVars, gradVars, palVars, compVars, asgVars, degenVars, bezVars, ctxVars, emptyVars, agreeVars, balVars, paintVars, arcVars>>

notAssocVars == <<styleVars, elemVars, pathVars, clipVars, boxVars, heapVars, numVars, boxMergeVars, invVars, gradVars, palVars, compVars, asgVars, degenVars, bezVars, ctxVars, emptyVars, agreeVars, balVars, paintVars, arcVars>>

notInvVars == <<styleVars, elemVars, pathVars, clipVars, boxVars, heapVars, numVars, boxMergeVars, assocVars, gradVars, palVars, compVars, asgVars, degenVars, bezVars, ctxVars, emptyVars, agreeVars, balVars, paintVars, arcVars>>

notGradVars == <<styleVars, elemVars, pathVars, clipVars, boxVars, heapVars, numVars, boxMergeVars, assocVars, invVars, palVars, compVars, asgVars, degenVars, bezVars, ctxVars, emptyVars, agreeVars, balVars, paintVars, arcVars>>

notPalVars == <<styleVars, elemVars, pathVars, clipVars, boxVars, heapVars, numVars, boxMergeVars, assocVars, invVars, gradVars, compVars, asgVars, degenVars, bezVars, ctxVars, emptyVars, agreeVars, balVars, paintVars, arcVars>>

notCompVars == <<styleVars, elemVars, pathVars, clipVars, boxVars, heapVars, numVars, boxMergeVars, assocVars, invVars, gradVars, palVars, asgVars, degenVars, bezVars, ctxVars, emptyVars, agreeVars, balVars, paintVars, arcVars>>

notAsgVars == <<styleVars, elemVars, pathVars, clipVars, boxVars, heapVars, numVars, boxMergeVars, assocVars, invVars, gradVars, palVars, compVars, degenVars, bezVars, ctxVars, emptyVars, agreeVars, balVars, paintVars, arcVars>>

notDegenVars == <<styleVars, elemVars, pathVars, clipVars, boxVars, heapVars, numVars, boxMergeVars, assocVars, invVars, gradVars, palVars, compVars, asgVars, bezVars, ctxVars, emptyVars, agreeVars, balVars, paintVars, arcVars>>

notBezVars == <<styleVars, elemVars, pathVars, clipVars, boxVars, heapVars, numVars, boxMergeVars, assocVars, invVars, gradVars, palVars, compVars, asgVars, degenVars, ctxVars, emptyVars, agreeVars, balVars, paintVars, arcVars>>

notCtxVars == <<styleVars, elemVars, pathVars, clipVars, boxVars, heapVars, numVars, boxMergeVars, assocVars, invVars, gradVars, palVars, compVars, asgVars, degenVars, bezVars, emptyVars, agreeVars, balVars, paintVars, arcVars>>

notEmptyVars == <<styleVars, elemVars, pathVars, clipVars, boxVars, heapVars, numVars, boxMergeVars, assocVars, invVars, gradVars, palVars, compVars, asgVars, degenVars, bezVars, ctxVars, agreeVars, balVars, paintVars, arcVars>>

notAgreeVars == <<styleVars, elemVars, pathVars, clipVars, boxVars, heapVars, numVars, boxMergeVars, assocVars, invVars, gradVars, palVars, compVars, asgVars, degenVars, bezVars, ctxVars, emptyVars, balVars, paintVars, arcVars>>

notBalVars == <<styleVars, elemVars, pathVars, clipVars, boxVars, heapVars, numVars, boxMergeVars, assocVars, invVars, gradVars, palVars, compVars, asgVars, degenVars, bezVars, ctxVars, emptyVars, agreeVars, paintVars, arcVars>>

notPaintVars == <<styleVars, elemVars, pathVars, clipVars, boxVars, heapVars, numVars, boxMergeVars, assocVars, invVars, gradVars, palVars, compVars, asgVars, degenVars, bezVars, ctxVars, emptyVars, agreeVars, balVars, arcVars>>

notArcVars == <<styleVars, elemVars, pathVars, clipVars, boxVars, heapVars, numVars, boxMergeVars, assocVars, invVars, gradVars, palVars, compVars, asgVars, degenVars, bezVars, ctxVars, emptyVars, agreeVars, balVars, paintVars>>

(***************************************************************************)
(* Tagged values                                                           *)
(***************************************************************************)
INHERIT == [t |-> "INHERIT"]

None == [t |-> "None"]

Num(n) == [t |-> "num", v |-> n]

Enum(name) == [t |-> "enum", v |-> name]

Bool(b) == [t |-> "bool", v |-> b]

Str(s) == [t |-> "str", v |-> s]

(***************************************************************************)
(* number_to_str                                                           *)
(***************************************************************************)
Precision == 4

Unit == 10 ^ (Precision + 1)

Abs(n) == IF n < 0 THEN -n ELSE n

\* round-half-even of a non-negative count of 1/Unit to a count of 10^-Precision
RoundToPrecision(m) ==
    LET q == m \div 10
        r == m % 10
    IN  IF r < 5 THEN q
        ELSE IF r > 5 THEN q + 1
        ELSE IF q % 2 = 0 THEN q ELSE q + 1

\* the fractional digits after rstrip("0"), for a count f of 10^-Precision below 1
FracDigits(f) ==
    LET d1 == f \div 1000
        d2 == (f \div 100) % 10
        d3 == (f \div 10) % 10
        d4 == f % 10
    IN  IF d4 # 0 THEN ToString(d1) \o ToString(d2) \o ToString(d3) \o ToString(d4)
        ELSE IF d3 # 0 THEN ToString(d1) \o ToString(d2) \o ToString(d3)
        ELSE IF d2 # 0 THEN ToString(d1) \o ToString(d2)
        ELSE IF d1 # 0 THEN ToString(d1)
        ELSE ""

number_to_str_sign_dropped_at_zero(n) ==
    LET r     == RoundToPrecision(Abs(n))
        whole == r \div (10 ^ Precision)
        frac  == r % (10 ^ Precision)
        sign  == IF n < 0 /\ r # 0 THEN "-" ELSE ""
    IN  IF frac = 0 THEN sign \o ToString(whole)
        ELSE sign \o ToString(whole) \o "." \o FracDigits(frac)

\* f"{number:.4f}".rstrip("0").rstrip(".")
number_to_str(n) ==
    LET r     == RoundToPrecision(Abs(n))
        whole == r \div (10 ^ Precision)
        frac  == r % (10 ^ Precision)
        sign  == IF n < 0 THEN "-" ELSE ""
    IN  IF frac = 0 THEN sign \o ToString(whole)
        ELSE sign \o ToString(whole) \o "." \o FracDigits(frac)

(***************************************************************************)
(* Point and Transform                                                     *)
(***************************************************************************)
Point(x, y) == [x |-> x, y |-> y]

PointAdd(p, q) == Point(p.x + q.x, p.y + q.y)

\* Point.render: "x y"
PointRender(p) == <<number_to_str(p.x), number_to_str(p.y)>>

Transform(a, b, c, d, e, f) == [a |-> a, b |-> b, c |-> c, d |-> d, e |-> e, f |-> f]

TransformIdentity == Transform(1, 0, 0, 1, 0, 0)

TransformTranslation(x, y) == Transform(1, 0, 0, 1, x, y)

TransformScaling(x, y) == Transform(x, 0, 0, y, 0, 0)

\* Point @ Transform
PointMatmul(p, tf) ==
    Point(tf.a * p.x + tf.c * p.y + tf.e, tf.b * p.x + tf.d * p.y + tf.f)

\* Transform @ Transform
TransformMatmul(s, o) ==
    Transform(s.a * o.a + s.b * o.c,
              s.a * o.b + s.b * o.d,
              s.c * o.a + s.d * o.c,
              s.c * o.b + s.d * o.d,
              s.e * o.a + s.f * o.c + o.e,
              s.e * o.b + s.f * o.d + o.f)

\* math.hypot on integers, exact when one leg is 0 (axis-aligned linear parts)
Hypot(u, v) == IF v = 0 THEN Abs(u) ELSE IF u = 0 THEN Abs(v)
               ELSE CHOOSE r \in 0..(Abs(u) + Abs(v)) :
                        r * r <= u * u + v * v /\ (r + 1) * (r + 1) > u * u + v * v

\* Transform.row_norms
RowNorms(tf) == <<Hypot(tf.a, tf.c), Hypot(tf.b, tf.d)>>

(***************************************************************************)
(* Rendered operators                                                      *)
(***************************************************************************)
Op(op, args, src) == [op |-> op, args |-> args, src |-> src]

\* Transform.render: "a b c d e f cm" (a..d are plain integers, e and f fixed-point)
\* (the field tf notes the matrix the six words denote)
TransformRender(tf) ==
    [op |-> "cm",
     args |-> <<number_to_str(tf.a * Unit), number_to_str(tf.b * Unit),
                number_to_str(tf.c * Unit), number_to_str(tf.d * Unit),
                number_to_str(tf.e), number_to_str(tf.f)>>,
     src |-> "Transform",
     tf |-> tf]

RECURSIVE Words(_)
\* the emitted text of a rendered sequence, word by word
Words(ops) ==
    IF ops = <<>> THEN <<>>
    ELSE Head(ops).args \o <<Head(ops).op>> \o Words(Tail(ops))

(***************************************************************************)
(* GraphicsStyle                                                           *)
(***************************************************************************)
MERGE_PROPERTIES_width_first ==
    <<"paint_rule", "allow_transparency", "auto_close", "intersection_rule",
      "fill_color", "fill_opacity", "stroke_width", "stroke_color", "stroke_opacity",
      "blend_mode", "stroke_cap_style", "stroke_join_style",
      "stroke_miter_limit", "stroke_dash_pattern", "stroke_dash_phase", "soft_mask">>

MERGE_PROPERTIES ==
    <<"paint_rule", "allow_transparency", "auto_close", "intersection_rule",
      "fill_color", "fill_opacity", "stroke_color", "stroke_opacity",
      "blend_mode", "stroke_width", "stroke_cap_style", "stroke_join_style",
      "stroke_miter_limit", "stroke_dash_pattern", "stroke_dash_phase", "soft_mask">>

PropertyNames == {MERGE_PROPERTIES[i] : i \in 1..Len(MERGE_PROPERTIES)}

\* the result of a setter or of a method that may raise: the object as the call
\* leaves it, and the exception ("none" when the call returns)
Returned(s) == [exc |-> "none", obj |-> s]

Raise(kind, s) == [exc |-> kind, obj |-> s]

IsColor(c) == c.t \in {"DeviceRGB", "DeviceGray", "DeviceCMYK", "GradientPaint"}

\* getattr(color, "a", None)
ColorAlpha(c) == IF c.t \in {"DeviceRGB", "DeviceGray", "DeviceCMYK"} THEN c.a ELSE None

\* check_range(value, 0.0, 1.0)
InRange(v) == v.t = "num" /\ 0 <= v.v /\ v.v <= Unit

set_allow_transparency(s, new) == Returned([s EXCEPT !.allow_transparency = new])

\* what CoercibleEnum.coerce raises for a value that is no member: ValueError for a
\* string that names none, TypeError for a value of another type
CoerceRefused(value, s) ==
    IF value.t = "str" THEN Raise("ValueError", s) ELSE Raise("TypeError", s)

set_paint_rule(s, new) ==
    IF new = None THEN Returned([s EXCEPT !.paint_rule = Enum("DONT_PAINT")])
    ELSE IF new = INHERIT \/ new.t = "enum" THEN Returned([s EXCEPT !.paint_rule = new])
    ELSE CoerceRefused(new, s)

set_auto_close(s, new) ==
    IF new = INHERIT \/ new.t = "bool" THEN Returned([s EXCEPT !.auto_close = new])
    ELSE Raise("TypeError", s)

set_intersection_rule(s, new) ==
    IF new = INHERIT \/ new.t = "enum" THEN Returned([s EXCEPT !.intersection_rule = new])
    ELSE CoerceRefused(new, s)

set_fill_opacity(s, new) ==
    IF new \in {None, INHERIT} \/ InRange(new)
    THEN Returned([s EXCEPT !.fill_opacity = new])
    ELSE IF new.t = "num" THEN Raise("ValueError", s) ELSE Raise("TypeError", s)

\* color_from_hex_string, for the strings of the model: "#ffffff" and "#ff0000" are
\* rgb8(255, 255, 255), a DeviceGray, and rgb8(255, 0, 0); a string without "#" raises
color_from_hex_string(hexstr) ==
    IF hexstr.v = "#ffffff" THEN Returned([t |-> "DeviceGray", v |-> <<Unit>>, a |-> None])
    ELSE IF hexstr.v = "#ff0000" THEN Returned([t |-> "DeviceRGB", v |-> <<Unit, 0, 0>>, a |-> None])
    ELSE Raise("ValueError", hexstr)

\* the fill_color setter once a string has been converted
AssignFillColor(s, color) ==
    IF IsColor(color)
    THEN LET s1 == [s EXCEPT !.fill_color = color]
         IN  IF ColorAlpha(color) # None THEN set_fill_opacity(s1, ColorAlpha(color))
             ELSE Returned(s1)
    ELSE IF color \in {None, INHERIT} THEN Returned([s EXCEPT !.fill_color = color])
    ELSE Raise("TypeError", s)

set_fill_color(s, color) ==
    IF color.t = "str"
    THEN IF color_from_hex_string(color).exc # "none" THEN Raise("ValueError", s)
         ELSE AssignFillColor(s, color_from_hex_string(color).obj)
    ELSE AssignFillColor(s, color)

set_stroke_opacity(s, new) ==
    IF new \in {None, INHERIT} \/ InRange(new)
    THEN Returned([s EXCEPT !.stroke_opacity = new])
    ELSE IF new.t = "num" THEN Raise("ValueError", s) ELSE Raise("TypeError", s)

set_stroke_width(s, width) ==
    IF width \in {None, INHERIT} \/ width.t = "num"
    THEN Returned([s EXCEPT !.stroke_width = width])
    ELSE Raise("TypeError", s)

\* the stroke_color setter once a string has been converted
AssignStrokeColor(s, color) ==
    IF IsColor(color)
    THEN LET s1 == [s EXCEPT !.stroke_color = color]
             r2 == IF ColorAlpha(color) # None
                   THEN set_stroke_opacity(s1, ColorAlpha(color))
                   ELSE Returned(s1)
         IN  IF r2.exc # "none" THEN r2
             ELSE IF r2.obj.stroke_width = INHERIT
                  THEN set_stroke_width(r2.obj, Num(1 * Unit))
                  ELSE r2
    ELSE IF color \in {None, INHERIT} THEN Returned([s EXCEPT !.stroke_color = color])
    ELSE Raise("TypeError", s)

set_stroke_color(s, color) ==
    IF color.t = "str"
    THEN IF color_from_hex_string(color).exc # "none" THEN Raise("ValueError", s)
         ELSE AssignStrokeColor(s, color_from_hex_string(color).obj)
    ELSE AssignStrokeColor(s, color)

set_blend_mode(s, value) ==
    IF value = INHERIT \/ value.t = "enum" THEN Returned([s EXCEPT !.blend_mode = value])
    ELSE CoerceRefused(value, s)

set_stroke_cap_style(s, value) ==
    IF value = INHERIT \/ value.t = "enum"
    THEN Returned([s EXCEPT !.stroke_cap_style = value])
    ELSE CoerceRefused(value, s)

set_stroke_join_style(s, value) ==
    IF value = INHERIT \/ value.t = "enum"
    THEN Returned([s EXCEPT !.stroke_join_style = value])
    ELSE CoerceRefused(value, s)

set_stroke_miter_limit(s, value) ==
    IF value = INHERIT \/ value.t = "num"
    THEN Returned([s EXCEPT !.stroke_miter_limit = value])
    ELSE Raise("TypeError", s)

\* None becomes (), a number n becomes (n,), a sequence of numbers is kept
set_stroke_dash_pattern(s, value) ==
    IF value = None THEN Returned([s EXCEPT !.stroke_dash_pattern = [t |-> "tuple", v |-> <<>>]])
    ELSE IF value = INHERIT THEN Returned([s EXCEPT !.stroke_dash_pattern = value])
    ELSE IF value.t = "num"
         THEN Returned([s EXCEPT !.stroke_dash_pattern = [t |-> "tuple", v |-> <<value.v>>]])
    ELSE IF value.t = "tuple" THEN Returned([s EXCEPT !.stroke_dash_pattern = value])
    ELSE Raise("TypeError", s)

set_stroke_dash_phase(s, value) ==
    IF value = INHERIT \/ value.t = "num"
    THEN Returned([s EXCEPT !.stroke_dash_phase = value])
    ELSE Raise("TypeError", s)

set_soft_mask(s, value) ==
    IF value = INHERIT \/ value.t = "PaintSoftMask"
    THEN Returned([s EXCEPT !.soft_mask = value])
    ELSE Raise("TypeError", s)

\* setattr(style, name, value): __setattr__ and the property setters
SetAttr(s, name, value) ==
    CASE name = "allow_transparency"  -> set_allow_transparency(s, value)
      [] name = "paint_rule"          -> set_paint_rule(s, value)
      [] name = "auto_close"          -> set_auto_close(s, value)
      [] name = "intersection_rule"   -> set_intersection_rule(s, value)
      [] name = "fill_color"          -> set_fill_color(s, value)
      [] name = "fill_opacity"        -> set_fill_opacity(s, value)
      [] name = "stroke_color"        -> set_stroke_color(s, value)
      [] name = "stroke_opacity"      -> set_stroke_opacity(s, value)
      [] name = "blend_mode"          -> set_blend_mode(s, value)
      [] name = "stroke_width"        -> set_stroke_width(s, value)
      [] name = "stroke_cap_style"    -> set_stroke_cap_style(s, value)
      [] name = "stroke_join_style"   -> set_stroke_join_style(s, value)
      [] name = "stroke_miter_limit"  -> set_stroke_miter_limit(s, value)
      [] name = "stroke_dash_pattern" -> set_stroke_dash_pattern(s, value)
      [] name = "stroke_dash_phase"   -> set_stroke_dash_phase(s, value)
      [] name = "soft_mask"           -> set_soft_mask(s, value)
      [] OTHER                        -> Raise("AttributeError", s)

\* GraphicsStyle.__init__: every property is assigned INHERIT through its setter
NewStyle == [p \in PropertyNames |-> INHERIT]

RECURSIVE MergeFrom(_, _, _, _)
\* one pass of the loop of GraphicsStyle.merge, r being what the setattr returned
MergeNext(r, parentStyle, childStyle, i) ==
    IF r.exc # "none" THEN r
    ELSE MergeFrom(r.obj, parentStyle, childStyle, i + 1)

\* the loop of GraphicsStyle.merge from MERGE_PROPERTIES[i] on, new being the style
\* built so far
MergeFrom(new, parentStyle, childStyle, i) ==
    IF i > Len(MERGE_PROPERTIES) THEN Returned(new)
    ELSE MergeNext(SetAttr(new, MERGE_PROPERTIES[i],
                           IF childStyle[MERGE_PROPERTIES[i]] = INHERIT
                           THEN parentStyle[MERGE_PROPERTIES[i]]
                           ELSE childStyle[MERGE_PROPERTIES[i]]),
                   parentStyle, childStyle, i)

Merge_stroke_color_last(parentStyle, childStyle) ==
    SetAttr(MergeFrom(NewStyle, parentStyle, childStyle, 1).obj, "stroke_color",
            MergeFrom(NewStyle, parentStyle, childStyle, 1).obj.stroke_color).obj

\* GraphicsStyle.merge(parent, child)
Merge(parentStyle, childStyle) == MergeFrom(NewStyle, parentStyle, childStyle, 1).obj

\* GraphicsStyle.__deepcopy__: a new style with every property re-assigned
RECURSIVE StyleCopyFrom(_, _, _)
StyleCopyFrom(copied, s, i) ==
    IF i > Len(MERGE_PROPERTIES) THEN copied
    ELSE StyleCopyFrom(SetAttr(copied, MERGE_PROPERTIES[i], s[MERGE_PROPERTIES[i]]).obj,
                       s, i + 1)

StyleDeepcopy(s) == StyleCopyFrom(NewStyle, s, 1)

\* GraphicsStyle._PAINT_RULE_LOOKUP
PAINT_RULE_LOOKUP ==
    [w \in {{},
            {Str("stroke")},
            {Str("fill"), Enum("NONZERO")},
            {Str("fill"), Enum("EVENODD")},
            {Str("stroke"), Str("fill"), Enum("NONZERO")},
            {Str("stroke"), Str("fill"), Enum("EVENODD")}} |->
        IF w = {} THEN Enum("DONT_PAINT")
        ELSE IF w = {Str("stroke")} THEN Enum("STROKE")
        ELSE IF w = {Str("fill"), Enum("NONZERO")} THEN Enum("FILL_NONZERO")
        ELSE IF w = {Str("fill"), Enum("EVENODD")} THEN Enum("FILL_EVENODD")
        ELSE IF w = {Str("stroke"), Str("fill"), Enum("NONZERO")}
             THEN Enum("STROKE_FILL_NONZERO")
        ELSE Enum("STROKE_FILL_EVENODD")]

WantSet_color_only(s) ==
    (IF s.stroke_color # None THEN {Str("stroke")} ELSE {})
    \cup (IF s.fill_color # None THEN {Str("fill"), s.intersection_rule} ELSE {})

\* the set `want` that resolve_paint_rule builds for paint_rule AUTO
WantSet(s) ==
    (IF s.stroke_width # None /\ s.stroke_color # None THEN {Str("stroke")} ELSE {})
    \cup (IF s.fill_color # None THEN {Str("fill"), s.intersection_rule} ELSE {})

\* GraphicsStyle.resolve_paint_rule
ResolvePaintRule(s) ==
    IF s.paint_rule = Enum("AUTO")
    THEN IF WantSet(s) \in DOMAIN PAINT_RULE_LOOKUP
         THEN PAINT_RULE_LOOKUP[WantSet(s)]
         ELSE Enum("STROKE_FILL_NONZERO")
    ELSE IF s.paint_rule = INHERIT THEN Enum("STROKE_FILL_NONZERO")
    ELSE s.paint_rule

\* PathPaintRule.value: the operator a paint rule is written as
PaintRuleValue(rule) ==
    CASE rule.v = "STROKE"              -> "S"
      [] rule.v = "FILL_NONZERO"        -> "f"
      [] rule.v = "FILL_EVENODD"        -> "f*"
      [] rule.v = "STROKE_FILL_NONZERO" -> "B"
      [] rule.v = "STROKE_FILL_EVENODD" -> "B*"
      [] rule.v = "DONT_PAINT"          -> "n"
      [] OTHER                          -> "auto"

\* ClippingPathIntersectionRule[name].value
ClippingPathIntersectionRuleValue(name) == IF name = "EVENODD" THEN "W*" ELSE "W"

(***************************************************************************)
(* Path elements                                                           *)
(***************************************************************************)
Move(pt) == [cls |-> "Move", pt |-> pt]

RelativeMove(pt) == [cls |-> "RelativeMove", pt |-> pt]

Line(pt) == [cls |-> "Line", pt |-> pt]

RelativeLine(pt) == [cls |-> "RelativeLine", pt |-> pt]

HorizontalLine(x) == [cls |-> "HorizontalLine", x |-> x]

RelativeHorizontalLine(x) == [cls |-> "RelativeHorizontalLine", x |-> x]

VerticalLine(y) == [cls |-> "VerticalLine", y |-> y]

RelativeVerticalLine(y) == [cls |-> "RelativeVerticalLine", y |-> y]

BezierCurve(c1, c2, end) == [cls |-> "BezierCurve", c1 |-> c1, c2 |-> c2, end |-> end]

RelativeBezierCurve(c1, c2, end) ==
    [cls |-> "RelativeBezierCurve", c1 |-> c1, c2 |-> c2, end |-> end]

Rectangle(org, size) == [cls |-> "Rectangle", org |-> org, size |-> size]

RoundedRectangle(org, size, corner_radii) ==
    [cls |-> "RoundedRectangle", org |-> org, size |-> size, corner_radii |-> corner_radii]

ImplicitClose == [cls |-> "ImplicitClose"]

Close == [cls |-> "Close"]

\* the end_point property of a resolved element (Move, Line, BezierCurve)
EndPoint(item) == IF item.cls = "BezierCurve" THEN item.end ELSE item.pt

\* what every render returns: the text, the new last item, the subpath start point
Rendered(ops, last_item, initial_point) ==
    [ops |-> ops, last |-> last_item, init |-> initial_point]

\* _render_move, _render_line, _render_curve
RenderMoveOp(pt, src) == Op("m", PointRender(pt), src)

RenderLineOp(pt, src) == Op("l", PointRender(pt), src)

RenderCurveOp(c1, c2, end, src) ==
    Op("c", PointRender(c1) \o PointRender(c2) \o PointRender(end), src)

MoveRender(el, last_item, initial_point) ==
    Rendered(<<RenderMoveOp(el.pt, el.cls)>>, el, el.pt)

RelativeMoveRender(el, last_item, initial_point) ==
    LET point == PointAdd(EndPoint(last_item), el.pt)
    IN  Rendered(<<RenderMoveOp(point, el.cls)>>, Move(point), point)

LineRender(el, last_item, initial_point) ==
    Rendered(<<RenderLineOp(el.pt, el.cls)>>, el, initial_point)

RelativeLineRender_from_start(el, last_item, initial_point) ==
    LET point == PointAdd(initial_point, el.pt)
    IN  Rendered(<<RenderLineOp(point, el.cls)>>, Line(point), initial_point)

RelativeLineRender(el, last_item, initial_point) ==
    LET point == PointAdd(EndPoint(last_item), el.pt)
    IN  Rendered(<<RenderLineOp(point, el.cls)>>, Line(point), initial_point)

HorizontalLineRender(el, last_item, initial_point) ==
    LET end_point == Point(el.x, EndPoint(last_item).y)
    IN  Rendered(<<RenderLineOp(end_point, el.cls)>>, Line(end_point), initial_point)

RelativeHorizontalLineRender(el, last_item, initial_point) ==
    LET end_point == Point(EndPoint(last_item).x + el.x, EndPoint(last_item).y)
    IN  Rendered(<<RenderLineOp(end_point, el.cls)>>, Line(end_point), initial_point)

VerticalLineRender(el, last_item, initial_point) ==
    LET end_point == Point(EndPoint(last_item).x, el.y)
    IN  Rendered(<<RenderLineOp(end_point, el.cls)>>, Line(end_point), initial_point)

RelativeVerticalLineRender(el, last_item, initial_point) ==
    LET end_point == Point(EndPoint(last_item).x, EndPoint(last_item).y + el.y)
    IN  Rendered(<<RenderLineOp(end_point, el.cls)>>, Line(end_point), initial_point)

BezierCurveRender(el, last_item, initial_point) ==
    Rendered(<<RenderCurveOp(el.c1, el.c2, el.end, el.cls)>>, el, initial_point)

RelativeBezierCurveRender(el, last_item, initial_point) ==
    LET last_point == EndPoint(last_item)
        c1  == PointAdd(last_point, el.c1)
        c2  == PointAdd(last_point, el.c2)
        end == PointAdd(last_point, el.end)
    IN  Rendered(<<RenderCurveOp(c1, c2, end, el.cls)>>, BezierCurve(c1, c2, end),
                 initial_point)

RectangleRender(el, last_item, initial_point) ==
    Rendered(<<Op("re", PointRender(el.org) \o PointRender(el.size), el.cls)>>,
             Line(el.org), initial_point)

\* ImplicitClose.render: "h" when style.auto_close is truthy (INHERIT, the
\* Ellipsis object, is truthy)
ImplicitCloseRender(el, style, last_item, initial_point) ==
    IF style.auto_close # Bool(FALSE)
    THEN Rendered(<<Op("h", <<>>, el.cls)>>, last_item, initial_point)
    ELSE Rendered(<<>>, last_item, initial_point)

CloseRender_keeps_last_item(el, last_item, initial_point) ==
    Rendered(<<Op("h", <<>>, el.cls)>>, last_item, initial_point)

\* Close.render: "h"; the new last item is a Move to the subpath's start point
CloseRender(el, last_item, initial_point) ==
    Rendered(<<Op("h", <<>>, el.cls)>>, Move(initial_point), initial_point)

\* RoundedRectangle._decompose, for corner radii with a zero component (the rounded
\* branch is made of Arc elements, which are not part of this model)
RoundedRectangleDecompose(el) ==
    IF el.size.x = 0 /\ el.size.y = 0 THEN <<>>
    ELSE IF el.size.x = 0 \/ el.size.y = 0
         THEN <<Move(el.org), Line(PointAdd(el.org, el.size)), Close>>
    ELSE <<Rectangle(el.org, el.size)>>

\* render of the elements that are neither containers nor made of other elements
PrimitiveRender(el, style, last_item, initial_point) ==
    CASE el.cls = "Move"                   -> MoveRender(el, last_item, initial_point)
      [] el.cls = "RelativeMove"           -> RelativeMoveRender(el, last_item, initial_point)
      [] el.cls = "Line"                   -> LineRender(el, last_item, initial_point)
      [] el.cls = "RelativeLine"           -> RelativeLineRender(el, last_item, initial_point)
      [] el.cls = "HorizontalLine"         -> HorizontalLineRender(el, last_item, initial_point)
      [] el.cls = "RelativeHorizontalLine" ->
            RelativeHorizontalLineRender(el, last_item, initial_point)
      [] el.cls = "VerticalLine"           -> VerticalLineRender(el, last_item, initial_point)
      [] el.cls = "RelativeVerticalLine"   ->
            RelativeVerticalLineRender(el, last_item, initial_point)
      [] el.cls = "BezierCurve"            -> BezierCurveRender(el, last_item, initial_point)
      [] el.cls = "RelativeBezierCurve"    ->
            RelativeBezierCurveRender(el, last_item, initial_point)
      [] el.cls = "Rectangle"              -> RectangleRender(el, last_item, initial_point)
      [] el.cls = "ImplicitClose"          ->
            ImplicitCloseRender(el, style, last_item, initial_point)
      [] el.cls = "Close"                  -> CloseRender(el, last_item, initial_point)

\* " ".join of two rendered pieces, the second rendered from where the first ended
Chain(r1, r2) == Rendered(r1.ops \o r2.ops, r2.last, r2.init)

RECURSIVE RenderComponents(_, _, _, _)
\* the rest of the loop of RoundedRectangle.render after a component gave r
ComponentsAfter(r, items, style) ==
    Chain(r, RenderComponents(items, style, r.last, r.init))

\* the loop of RoundedRectangle.render over its components
RenderComponents(items, style, last_item, initial_point) ==
    IF items = <<>> THEN Rendered(<<>>, last_item, initial_point)
    ELSE ComponentsAfter(PrimitiveRender(Head(items), style, last_item, initial_point),
                         Tail(items), style)

\* the operators of ops, noted as emitted by the class cls
EmittedBy(ops, cls) == [i \in 1..Len(ops) |-> [ops[i] EXCEPT !.src = cls]]

\* what RoundedRectangle.render returns once its components gave r
RoundedRectangleResult(el, r) == Rendered(EmittedBy(r.ops, el.cls), Line(el.org), r.init)

\* RoundedRectangle.render
RoundedRectangleRender(el, style, last_item, initial_point) ==
    IF RoundedRectangleDecompose(el) = <<>> THEN Rendered(<<>>, last_item, initial_point)
    ELSE RoundedRectangleResult(
            el, RenderComponents(RoundedRectangleDecompose(el), style,
                                 last_item, initial_point))

(***************************************************************************)
(* Colours and the graphics-state dictionary                               *)
(***************************************************************************)
DeviceRGB(r, g, b, a) == [t |-> "DeviceRGB", v |-> <<r, g, b>>, a |-> a]

DeviceGray(g, a) == [t |-> "DeviceGray", v |-> <<g>>, a |-> a]

\* DeviceRGB.OPERATOR, DeviceGray.OPERATOR, DeviceCMYK.OPERATOR
ColorOperator(c) ==
    CASE c.t = "DeviceRGB"  -> "rg"
      [] c.t = "DeviceGray" -> "g"
      [] c.t = "DeviceCMYK" -> "k"

\* str.upper of the operator word
UpperOperator(w) ==
    CASE w = "rg" -> "RG"
      [] w = "g"  -> "G"
      [] w = "k"  -> "K"

\* color.serialize().lower() and color.serialize().upper()
ColorSerialize(c, stroke) ==
    Op(IF stroke THEN UpperOperator(ColorOperator(c)) ELSE ColorOperator(c),
       [i \in 1..Len(c.v) |-> number_to_str(c.v[i])], "GraphicsContext")

\* the properties GraphicsStyle.serialize reads under their PDF keys
PDF_STYLE_KEYS ==
    <<"fill_opacity", "stroke_opacity", "blend_mode", "stroke_width",
      "stroke_cap_style", "stroke_join_style", "stroke_miter_limit", "soft_mask">>

TRANSPARENCY_KEYS == {"fill_opacity", "stroke_opacity", "blend_mode", "soft_mask"}

\* the keys of the dictionary GraphicsStyle.serialize builds (the Type entry left
\* out); the empty set stands for the None it returns when there is nothing to emit
SerializeKeys(s) ==
    LET direct == {PDF_STYLE_KEYS[i] : i \in {j \in 1..Len(PDF_STYLE_KEYS) :
                        s[PDF_STYLE_KEYS[j]] # INHERIT /\ s[PDF_STYLE_KEYS[j]] # None}}
        dash   == IF s.stroke_dash_pattern # INHERIT
                     /\ s.stroke_dash_pattern # [t |-> "tuple", v |-> <<>>]
                  THEN {"stroke_dash_pattern"} ELSE {}
        all    == direct \cup dash
    IN  IF s.allow_transparency = Bool(FALSE) THEN all \ TRANSPARENCY_KEYS ELSE all

\* GraphicsStyle.serialize, as the dictionary's content
Serialize(s) ==
    [k \in SerializeKeys(s) |->
        IF k = "stroke_dash_pattern" THEN <<s.stroke_dash_pattern, s.stroke_dash_phase>>
        ELSE <<s[k]>>]

\* ResourceCatalog.register_graphics_style: None when the style serializes to
\* nothing, else a name that depends on the dictionary's content alone
RegisterGraphicsStyle(s) ==
    IF SerializeKeys(s) = {} THEN None
    ELSE [t |-> "Name", v |-> "/GS" \o ToString(Serialize(s))]

\* render_pdf_primitive of a dash pattern tuple followed by the phase and "d"
DashOp(pattern, phase) ==
    LET n == Len(pattern.v)
        w == [i \in 1..n |-> number_to_str(pattern.v[i])]
        list == IF n = 0 THEN <<"[]">>
                ELSE IF n = 1 THEN <<"[" \o w[1] \o "]">>
                ELSE <<"[" \o w[1]>> \o SubSeq(w, 2, n - 1) \o <<w[n] \o "]">>
    IN  Op("d", list \o <<number_to_str(phase.v)>>, "GraphicsContext")

(***************************************************************************)
(* GraphicsContext, PaintedPath, ClippingPath: construction                *)
(***************************************************************************)
\* GraphicsContext.__init__
NewGraphicsContext ==
    [cls |-> "GraphicsContext", style |-> NewStyle, path_items |-> <<>>,
     transform |-> None, clipping_path |-> None]

\* the context a PaintedPath adds to: the root, an open transform_group (groups[k]),
\* or a group context that has been left (its copy was attached, the object itself
\* is referenced by _close_context only)
InRoot == [where |-> "root", k |-> 0]

InGroup(k) == [where |-> "group", k |-> k]

Detached == [where |-> "detached", k |-> 0]

\* PaintedPath.__init__(x, y)
NewPaintedPath(x, y) ==
    [cls |-> "PaintedPath", root |-> NewGraphicsContext, groups |-> <<>>,
     closed |-> TRUE, close_context |-> InRoot, starter_move |-> Move(Point(x, y))]

\* ClippingPath.__init__(x, y): a PaintedPath whose paint_rule is DONT_PAINT
NewClippingPath(x, y) ==
    [NewPaintedPath(x, y) EXCEPT
        !.cls = "ClippingPath",
        !.root.style = set_paint_rule(NewStyle, Enum("DONT_PAINT")).obj]

\* self._graphics_context
CurrentContext(p) == IF p.groups = <<>> THEN InRoot ELSE InGroup(Len(p.groups))

\* GraphicsContext.add_item(item, _copy=False) on the context `where` of path p
AppendTo(p, where, item) ==
    CASE where.where = "root" ->
            [p EXCEPT !.root.path_items = Append(@, item)]
      [] where.where = "group" ->
            [p EXCEPT !.groups[where.k].path_items = Append(@, item)]
      [] where.where = "detached" -> p

(***************************************************************************)
(* Rendering of GraphicsContext, PaintedPath and ClippingPath              *)
(***************************************************************************)
InsertImplicitCloseIfOpen_never(p) == p

\* PaintedPath._insert_implicit_close_if_open
InsertImplicitCloseIfOpen(p) ==
    IF ~p.closed
    THEN [AppendTo(p, p.close_context, ImplicitClose) EXCEPT
              !.close_context = CurrentContext(p), !.closed = TRUE]
    ELSE p

\* whether build_render_list emits the dash pattern: the merged dash settings differ
\* from the ambient ones
EmitDash(style, merged_style) ==
    \/ merged_style.stroke_dash_pattern # style.stroke_dash_pattern
    \/ merged_style.stroke_dash_phase # style.stroke_dash_phase

\* emit_style with the merged dash settings written into it
WithDash(s, merged_style) ==
    set_stroke_dash_phase(
        set_stroke_dash_pattern(s, merged_style.stroke_dash_pattern).obj,
        merged_style.stroke_dash_phase).obj

\* the variant of the registered style that takes the merged style
EmitStyle_merged(gc, style, merged_style) == merged_style

\* the style build_render_list registers: the context's own style, or a copy of it
\* with the merged allow_transparency, then with the merged dash settings
EmitStyle(gc, style, merged_style) ==
    IF merged_style.allow_transparency # gc.style.allow_transparency
    THEN IF EmitDash(style, merged_style)
         THEN WithDash(set_allow_transparency(StyleDeepcopy(gc.style),
                                              merged_style.allow_transparency).obj,
                       merged_style)
         ELSE set_allow_transparency(StyleDeepcopy(gc.style),
                                     merged_style.allow_transparency).obj
    ELSE IF EmitDash(style, merged_style)
         THEN WithDash(StyleDeepcopy(gc.style), merged_style)
         ELSE gc.style

\* "<name> gs", when register_graphics_style returned a name
GsOps(name) ==
    IF name # None THEN <<Op("gs", <<name.v>>, "GraphicsContext")>> ELSE <<>>

\* "<colour> rg" or "<colour> RG" and the like, when the context sets the colour
ColorOps(c, stroke) ==
    IF c # None /\ c # INHERIT THEN <<ColorSerialize(c, stroke)>> ELSE <<>>

\* the variant of the state operators that emits the colours of the merged style
StateOps_merged_colors(gc, style, merged_style) ==
    GsOps(RegisterGraphicsStyle(EmitStyle(gc, style, merged_style)))
    \o ColorOps(merged_style.fill_color, FALSE)
    \o ColorOps(merged_style.stroke_color, TRUE)
    \o (IF EmitDash(style, merged_style)
        THEN <<DashOp(merged_style.stroke_dash_pattern, merged_style.stroke_dash_phase)>>
        ELSE <<>>)

\* the part of build_render_list before the clipping path and the items: the gs
\* operator, the fill colour, the stroke colour, the dash pattern
StateOps(gc, style, merged_style) ==
    GsOps(RegisterGraphicsStyle(EmitStyle(gc, style, merged_style)))
    \o ColorOps(gc.style.fill_color, FALSE)
    \o ColorOps(gc.style.stroke_color, TRUE)
    \o (IF EmitDash(style, merged_style)
        THEN <<DashOp(merged_style.stroke_dash_pattern, merged_style.stroke_dash_phase)>>
        ELSE <<>>)

\* `render_list.insert(0, self.transform.render(last_item)[0])`
WithTransform(gc, ops) ==
    IF gc.transform # None THEN <<TransformRender(gc.transform)>> \o ops ELSE ops

\* the variant of the bracket that restores the state whether or not it was saved
WithStack_always_restores(ops, _push_stack) ==
    IF _push_stack
    THEN <<Op("q", <<>>, "GraphicsContext")>> \o ops \o <<Op("Q", <<>>, "GraphicsContext")>>
    ELSE ops \o <<Op("Q", <<>>, "GraphicsContext")>>

\* `render_list.insert(0, "q"); render_list.append("Q")` when _push_stack
WithStack(ops, _push_stack) ==
    IF _push_stack
    THEN <<Op("q", <<>>, "GraphicsContext")>> \o ops \o <<Op("Q", <<>>, "GraphicsContext")>>
    ELSE ops

AssembleRenderList_clip_first(gc, style, merged_style, clip_ops, items, _push_stack) ==
    Rendered(WithStack(clip_ops \o WithTransform(gc, StateOps(gc, style, merged_style)
                                                         \o items.ops),
                       _push_stack),
             items.last, items.init)

\* build_render_list once the clipping path (clip_ops) and the path items (items)
\* are rendered: the state operators, the clipping path, the items; the transform in
\* front of them; q and Q around them when _push_stack
AssembleRenderList(gc, style, merged_style, clip_ops, items, _push_stack) ==
    Rendered(WithStack(WithTransform(gc, StateOps(gc, style, merged_style)
                                             \o clip_ops \o items.ops),
                       _push_stack),
             items.last, items.init)

InsertBeforeLast_append(ops, x) == Append(ops, x)

\* list.insert(-1, x): before the last entry, or alone in an empty list
InsertBeforeLast(ops, x) ==
    IF ops = <<>> THEN <<x>>
    ELSE SubSeq(ops, 1, Len(ops) - 1) \o <<x, ops[Len(ops)]>>

\* PaintedPath.render after build_render_list returned r: the paint operator resolved
\* from merge(style, self.style) goes in with render_list.insert(-1, ...)
FinishPaintedPath(merged_style, r) ==
    Rendered(InsertBeforeLast(r.ops, Op(PaintRuleValue(ResolvePaintRule(merged_style)),
                                        <<>>, "PaintedPath")),
             r.last, r.init)

FinishClippingPath_ambient_rule(merged_style, r) ==
    Rendered(r.ops
             \o <<Op(ClippingPathIntersectionRuleValue("NONZERO"), <<>>, "ClippingPath"),
                  Op(PaintRuleValue(ResolvePaintRule(merged_style)), <<>>, "ClippingPath")>>,
             r.last, r.init)

\* ClippingPath.render after build_render_list returned r: the intersection rule of
\* merge(style, self.style) and its resolved paint rule are appended
FinishClippingPath(merged_style, r) ==
    Rendered(r.ops
             \o <<Op(ClippingPathIntersectionRuleValue(
                        IF merged_style.intersection_rule = INHERIT THEN "NONZERO"
                        ELSE merged_style.intersection_rule.v),
                     <<>>, "ClippingPath"),
                  Op(PaintRuleValue(ResolvePaintRule(merged_style)), <<>>, "ClippingPath")>>,
             r.last, r.init)

\* the GraphicsContext a container item renders through build_render_list: the item
\* itself, or the root context of a path (of a PaintedPath after
\* _insert_implicit_close_if_open)
RenderContext(item) ==
    CASE item.cls = "GraphicsContext" -> item
      [] item.cls = "PaintedPath" -> InsertImplicitCloseIfOpen(item).root
      [] item.cls = "ClippingPath" -> item.root

IsContainer(item) == item.cls \in {"GraphicsContext", "PaintedPath", "ClippingPath"}

\* what the render of a container of class cls does with what build_render_list built
FinishContainer(cls, merged_style, built) ==
    CASE cls = "GraphicsContext" -> built
      [] cls = "PaintedPath" -> FinishPaintedPath(merged_style, built)
      [] cls = "ClippingPath" -> FinishClippingPath(merged_style, built)

RECURSIVE RenderItems(_, _, _, _)
\* the rest of the loop of build_render_list after an item gave r
ItemsAfter(r, items, style) == Chain(r, RenderItems(items, style, r.last, r.init))

\* GraphicsContext.build_render_list of the context gc of a container of class cls,
\* followed by what the container's render adds; merged_style is merge(style, gc.style)
RenderMerged(cls, gc, style, merged_style, last_item, initial_point) ==
    FinishContainer(
        cls, merged_style,
        IF gc.path_items = <<>> THEN Rendered(<<>>, last_item, initial_point)
        ELSE AssembleRenderList(
                gc, style, merged_style,
                IF gc.clipping_path # None
                THEN RenderItems(<<gc.clipping_path>>, merged_style,
                                 last_item, initial_point).ops
                ELSE <<>>,
                RenderItems(gc.path_items, merged_style, last_item, initial_point),
                cls # "ClippingPath"))

\* render of the container item through its context gc
RenderContainer(cls, gc, style, last_item, initial_point) ==
    RenderMerged(cls, gc, style, Merge(style, gc.style), last_item, initial_point)

\* the loop of build_render_list, `for item in self.path_items: rendered, last_item,
\* initial_point = item.render(registry, merged_style, last_item, initial_point)`
RenderItems(items, style, last_item, initial_point) ==
    IF items = <<>> THEN Rendered(<<>>, last_item, initial_point)
    ELSE ItemsAfter(
            IF IsContainer(Head(items))
            THEN RenderContainer(Head(items).cls, RenderContext(Head(items)), style,
                                 last_item, initial_point)
            ELSE IF Head(items).cls = "RoundedRectangle"
            THEN RoundedRectangleRender(Head(items), style, last_item, initial_point)
            ELSE PrimitiveRender(Head(items), style, last_item, initial_point),
            Tail(items), style)

\* item.render(resource_registry, style, last_item, initial_point)
RenderItem(item, style, last_item, initial_point) ==
    RenderItems(<<item>>, style, last_item, initial_point)

\* GraphicsContext.render
GraphicsContextRender(gc, style, last_item, initial_point) ==
    RenderItem(gc, style, last_item, initial_point)

\* PaintedPath.render, on the path as _insert_implicit_close_if_open leaves it
PaintedPathRender(p, style, last_item, initial_point) ==
    RenderItem(p, style, last_item, initial_point)

\* ClippingPath.render
ClippingPathRender(p, style, last_item, initial_point) ==
    RenderItem(p, style, last_item, initial_point)

(***************************************************************************)
(* Copies                                                                  *)
(***************************************************************************)
\* Objects are values in the model.  Where an object is shared between the caller
\* and a container, the container holds CallerRef, which stands for the object the
\* caller holds (the variable callerItem): what the container then sees is whatever
\* the caller has made of it.
CallerRef == [cls |-> "Ref"]

Deref(item) == IF item = CallerRef THEN callerItem ELSE item

RECURSIVE DeepcopyItem(_)
\* copy.deepcopy(item): GraphicsContext.__deepcopy__, PaintedPath.__deepcopy__ (of a
\* path that is not inside a transform_group), and path elements, which are values;
\* the copy of a shared object is a copy of the object as it is now
DeepcopyItem(item) ==
    CASE item.cls = "GraphicsContext" ->
            [cls |-> "GraphicsContext",
             style |-> StyleDeepcopy(item.style),
             path_items |-> [i \in 1..Len(item.path_items) |->
                                DeepcopyItem(item.path_items[i])],
             transform |-> item.transform,
             clipping_path |-> IF item.clipping_path = None THEN None
                               ELSE DeepcopyItem(item.clipping_path)]
      [] item.cls \in {"PaintedPath", "ClippingPath"} ->
            [cls |-> item.cls,
             root |-> DeepcopyItem(item.root),
             groups |-> <<>>,
             closed |-> item.closed,
             close_context |-> InRoot,
             starter_move |-> Move(Point(0, 0))]
      [] item.cls = "Ref" -> DeepcopyItem(callerItem)
      [] item.cls = "PaintComposite" ->
            [item EXCEPT !.backdrop = DeepcopyItem(@), !.source = DeepcopyItem(@)]
      [] OTHER -> item

deepcopy_of_path_in_group(item) == Returned(DeepcopyItem(item))

\* copy.deepcopy(item): PaintedPath.__deepcopy__ refuses a path whose current graphics
\* context is not its root context, that is, a path inside a transform_group block
deepcopy(item) ==
    IF Deref(item).cls \in {"PaintedPath", "ClippingPath"} /\ Deref(item).groups # <<>>
    THEN Raise("RuntimeError", item)
    ELSE Returned(DeepcopyItem(item))

(***************************************************************************)
(* PaintedPath: the builder methods                                        *)
(***************************************************************************)
\* PaintedPath.add_path_element(item, _copy)
add_path_element(p, item, _copy) ==
    LET q == IF p.starter_move # None
             THEN [AppendTo(p, CurrentContext(p), p.starter_move) EXCEPT
                      !.closed = FALSE,
                      !.close_context = CurrentContext(p),
                      !.starter_move = None]
             ELSE p
    IN  AppendTo(q, CurrentContext(q), IF _copy THEN DeepcopyItem(item) ELSE item)

move_to(p, x, y) ==
    [InsertImplicitCloseIfOpen(p) EXCEPT !.starter_move = Move(Point(x, y))]

move_relative(p, x, y) ==
    LET q == InsertImplicitCloseIfOpen(p)
        r == IF q.starter_move # None
             THEN [AppendTo(q, CurrentContext(q), q.starter_move) EXCEPT
                      !.closed = FALSE,
                      !.close_context = CurrentContext(q)]
             ELSE q
    IN  [r EXCEPT !.starter_move = RelativeMove(Point(x, y))]

line_to(p, x, y) == add_path_element(p, Line(Point(x, y)), FALSE)

line_relative(p, dx, dy) == add_path_element(p, RelativeLine(Point(dx, dy)), FALSE)

horizontal_line_to(p, x) == add_path_element(p, HorizontalLine(x), FALSE)

vertical_line_relative(p, dy) == add_path_element(p, RelativeVerticalLine(dy), FALSE)

curve_to(p, x1, y1, x2, y2, x3, y3) ==
    add_path_element(p, BezierCurve(Point(x1, y1), Point(x2, y2), Point(x3, y3)), FALSE)

\* PaintedPath.rectangle(x, y, w, h, rx, ry)
rectangle(p, x, y, w, h, rx, ry) ==
    LET q == add_path_element(InsertImplicitCloseIfOpen(p),
                              RoundedRectangle(Point(x, y), Point(w, h), Point(rx, ry)),
                              FALSE)
    IN  move_to([q EXCEPT !.closed = TRUE], x, y)

\* PaintedPath.close
close(p) ==
    move_relative([add_path_element(p, Close, FALSE) EXCEPT !.closed = TRUE], 0, 0)

\* entering `with path.transform_group(transform)`: _new_graphics_context up to the yield
transform_group_enter(p, tf) ==
    [p EXCEPT !.groups = Append(@, [NewGraphicsContext EXCEPT !.transform = tf])]

GraphicsContextAddItem_no_copy(gc, item, _copy) ==
    [gc EXCEPT !.path_items = Append(@, item)]

\* GraphicsContext.add_item(item, _copy) on a GraphicsContext value
GraphicsContextAddItem(gc, item, _copy) ==
    [gc EXCEPT !.path_items = Append(@, IF _copy THEN DeepcopyItem(item) ELSE item)]

\* DrawingContext.add_item(item, _copy) on the list _subitems: anything but a
\* GraphicsContext, a PaintedPath or a PaintComposite is refused with a TypeError
DrawingContextAddItem(_subitems, item, _copy) ==
    IF ~IsContainer(Deref(item)) /\ Deref(item).cls # "PaintComposite" THEN _subitems
    ELSE Append(_subitems, IF _copy THEN DeepcopyItem(item) ELSE item)

\* leaving the with block: the group's context is added (copied) to the context that
\* was current before, which becomes current again; a _close_context that is the
\* group's context keeps pointing at the object the copy was taken from
transform_group_exit(p) ==
    LET n     == Len(p.groups)
        group == p.groups[n]
        outer == IF n = 1 THEN InRoot ELSE InGroup(n - 1)
        q     == [p EXCEPT !.groups = SubSeq(@, 1, n - 1),
                           !.close_context = IF @ = InGroup(n) THEN Detached ELSE @]
    IN  AppendTo(q, outer, DeepcopyItem(group))

(***************************************************************************)
(* BoundingBox and the bounding_box pass                                   *)
(*                                                                         *)
(* BoundingBox.empty() holds infinities; the model keeps a flag instead.   *)
(* Under the transforms of the model (b = c = 0) every corner of the empty *)
(* box maps to NaN, so the transformed empty box is not valid either.      *)
(***************************************************************************)
BoundingBox(x0, y0, x1, y1) == [empty |-> FALSE, x0 |-> x0, y0 |-> y0, x1 |-> x1, y1 |-> y1]

\* BoundingBox.empty
BoundingBoxEmpty == [empty |-> TRUE, x0 |-> 0, y0 |-> 0, x1 |-> 0, y1 |-> 0]

\* BoundingBox.is_valid
is_valid(b) == ~b.empty /\ b.x0 <= b.x1 /\ b.y0 <= b.y1

Min(S) == CHOOSE m \in S : \A n \in S : m <= n

Max(S) == CHOOSE m \in S : \A n \in S : m >= n

\* BoundingBox.from_points
from_points(points) ==
    BoundingBox(Min({points[i].x : i \in DOMAIN points}),
                Min({points[i].y : i \in DOMAIN points}),
                Max({points[i].x : i \in DOMAIN points}),
                Max({points[i].y : i \in DOMAIN points}))

\* BoundingBox.merge
BoundingBoxMerge(self, other) ==
    IF ~is_valid(self) THEN other
    ELSE IF ~is_valid(other) THEN self
    ELSE BoundingBox(Min({self.x0, other.x0}), Min({self.y0, other.y0}),
                     Max({self.x1, other.x1}), Max({self.y1, other.y1}))

\* BoundingBox.transformed
transformed(self, tf) ==
    IF self.empty THEN BoundingBoxEmpty
    ELSE from_points(<<PointMatmul(Point(self.x0, self.y0), tf),
                       PointMatmul(Point(self.x1, self.y0), tf),
                       PointMatmul(Point(self.x0, self.y1), tf),
                       PointMatmul(Point(self.x1, self.y1), tf)>>)

\* BoundingBox.expanded
expanded(self, dx, dy) ==
    IF self.empty THEN BoundingBoxEmpty
    ELSE BoundingBox(self.x0 - dx, self.y0 - dy, self.x1 + dx, self.y1 + dy)

StrokingRules ==
    {Enum("STROKE"), Enum("STROKE_FILL_NONZERO"), Enum("STROKE_FILL_EVENODD")}

\* the w of expanded_to_stroke: the PDF default 1 when the width is unset
EffectiveStrokeWidth(style) ==
    IF style.stroke_width \in {None, INHERIT} THEN 1 * Unit ELSE style.stroke_width.v

\* BoundingBox.expanded_to_stroke
expanded_to_stroke(self, style, row_norms) ==
    IF ResolvePaintRule(style) \notin StrokingRules THEN self
    ELSE IF style.stroke_opacity \notin {INHERIT, None} /\ style.stroke_opacity.v <= 0
    THEN self
    ELSE IF EffectiveStrokeWidth(style) = 0 THEN self
    ELSE expanded(self, (EffectiveStrokeWidth(style) \div 2) * row_norms[1],
                        (EffectiveStrokeWidth(style) \div 2) * row_norms[2])

\* what every bounding_box returns: the box and the end point
Measured(bbox, pt) == [bbox |-> bbox, pt |-> pt]

\* the bounding_box of Move, RelativeMove, Line, RelativeLine, Rectangle,
\* ImplicitClose and Close
PrimitiveBoundingBox(item, start) ==
    CASE item.cls = "Move" -> Measured(BoundingBoxEmpty, item.pt)
      [] item.cls = "RelativeMove" -> Measured(BoundingBoxEmpty, PointAdd(start, item.pt))
      [] item.cls = "Line" -> Measured(from_points(<<start, item.pt>>), item.pt)
      [] item.cls = "RelativeLine" ->
            Measured(from_points(<<start, PointAdd(start, item.pt)>>),
                     PointAdd(start, item.pt))
      [] item.cls = "Rectangle" ->
            Measured(from_points(<<item.org,
                                   Point(item.org.x + item.size.x, item.org.y),
                                   Point(item.org.x, item.org.y + item.size.y),
                                   PointAdd(item.org, item.size)>>),
                     item.org)
      [] item.cls \in {"ImplicitClose", "Close"} -> Measured(BoundingBoxEmpty, start)

\* what walk returns: the box, the end point and the largest row norms
Walked(bbox, pt, nx, ny) == [bbox |-> bbox, pt |-> pt, nx |-> nx, ny |-> ny]

\* walk, after a nested GraphicsContext: its box is already in this space
AfterChild(w, sub) ==
    Walked(BoundingBoxMerge(w.bbox, sub.bbox), sub.pt,
           Max({w.nx, sub.nx}), Max({w.ny, sub.ny}))

\* walk, after any other item: its box is mapped through the accumulated transform
AfterItem(w, m, tf) == Walked(BoundingBoxMerge(w.bbox, transformed(m.bbox, tf)), m.pt, w.nx, w.ny)

\* the step of GraphicsContext.bounding_box that follows walk
FinishBoundingBox(w, effective_style, expand_for_stroke) ==
    Measured(IF expand_for_stroke
             THEN expanded_to_stroke(w.bbox, effective_style, <<w.nx, w.ny>>)
             ELSE w.bbox,
             w.pt)

\* `transform or I`
TransformOrIdentity(tf) == IF tf # None THEN tf ELSE TransformIdentity

RECURSIVE walk(_, _, _, _)
RECURSIVE GraphicsContextBoundingBox(_, _, _, _)
\* PaintedPath.bounding_box(start)
PaintedPathBoundingBox(p, start) ==
    GraphicsContextBoundingBox(p.root, start, p.root.style, TRUE)

\* one pass of the loop of walk: a nested GraphicsContext is walked with the merged
\* style and the accumulated transform, any other item that has a bounding_box is
\* asked for it (a PaintedPath answers with its own bounding_box)
WalkStep(item, w, merged_style, tf) ==
    IF item.cls = "GraphicsContext"
    THEN AfterChild(w, walk(item, w.pt, merged_style, tf))
    ELSE IF item.cls \in {"PaintedPath", "ClippingPath"}
    THEN AfterItem(w, PaintedPathBoundingBox(item, w.pt), tf)
    ELSE AfterItem(w, PrimitiveBoundingBox(item, w.pt), tf)

RECURSIVE WalkItems(_, _, _, _, _)
\* the loop of walk over the path items from item i on, w being the result so far
WalkItems(items, i, w, merged_style, tf) ==
    IF i > Len(items) THEN w
    ELSE WalkItems(items, i + 1, WalkStep(items[i], w, merged_style, tf), merged_style, tf)

\* walk, once tf and merged_style are computed
WalkContext(ctx, current_point, merged_style, tf) ==
    WalkItems(ctx.path_items, 1,
              Walked(BoundingBoxEmpty, current_point, RowNorms(tf)[1], RowNorms(tf)[2]),
              merged_style, tf)

\* the function walk of GraphicsContext.bounding_box
walk(ctx, current_point, ambient_style, accum_tf) ==
    WalkContext(ctx, current_point,
                IF ambient_style # None THEN Merge(ambient_style, ctx.style)
                ELSE ctx.style,
                TransformMatmul(accum_tf, TransformOrIdentity(ctx.transform)))

\* GraphicsContext.bounding_box(start, style, expand_for_stroke)
GraphicsContextBoundingBox(gc, start, style, expand_for_stroke) ==
    FinishBoundingBox(walk(gc, start, style, TransformIdentity),
                      IF style # None THEN Merge(style, gc.style) ELSE gc.style,
                      expand_for_stroke)

\* item.bounding_box(start) of a GraphicsContext or a PaintedPath
bounding_box(item, start) ==
    IF item.cls = "GraphicsContext" THEN GraphicsContextBoundingBox(item, start, None, TRUE)
    ELSE PaintedPathBoundingBox(item, start)

\* BoundingBox.__eq__: every coordinate within 1e-6, which is below the resolution of
\* the model; a difference of two infinities of one sign is NaN and an infinity minus
\* a number is infinite, neither is below the tolerance
BoundingBoxEq(self, other) ==
    /\ ~self.empty
    /\ ~other.empty
    /\ self.x0 = other.x0
    /\ self.y0 = other.y0
    /\ self.x1 = other.x1
    /\ self.y1 = other.y1

(***************************************************************************)
(* Transform.inverse                                                       *)
(*                                                                         *)
(* The entries of the inverse are quotients by the determinant; the model  *)
(* keeps the numerators and the common denominator den, so that the        *)
(* arithmetic is exact.                                                    *)
(***************************************************************************)
TransformInverse_translation_negated(tf) ==
    IF tf.a * tf.d - tf.b * tf.c = 0 THEN Raise("ValueError", tf)
    ELSE Returned([a |-> tf.d, b |-> -tf.b, c |-> -tf.c, d |-> tf.a,
                   e |-> -tf.e * (tf.a * tf.d - tf.b * tf.c),
                   f |-> -tf.f * (tf.a * tf.d - tf.b * tf.c),
                   den |-> tf.a * tf.d - tf.b * tf.c])

\* Transform.inverse
TransformInverse(tf) ==
    IF tf.a * tf.d - tf.b * tf.c = 0 THEN Raise("ValueError", tf)
    ELSE Returned([a |-> tf.d, b |-> -tf.b, c |-> -tf.c, d |-> tf.a,
                   e |-> tf.c * tf.f - tf.d * tf.e,
                   f |-> tf.b * tf.e - tf.a * tf.f,
                   den |-> tf.a * tf.d - tf.b * tf.c])

\* Point @ Transform for a transform with denominator: the numerators of the
\* coordinates, over the same denominator
PointMatmulOver(p, tf) ==
    [x |-> tf.a * p.x + tf.c * p.y + tf.e,
     y |-> tf.b * p.x + tf.d * p.y + tf.f,
     den |-> tf.den]

\* P @ T @ T.inverse(), inv being what T.inverse() gave
RoundTrip(p, tf, inv) ==
    IF inv.exc # "none" THEN None ELSE PointMatmulOver(PointMatmul(p, tf), inv.obj)

(***************************************************************************)
(* Gradients (fpdf/pattern.py)                                             *)
(*                                                                         *)
(* Offsets and colour components are fixed-point.  The tolerance 1e-9 of   *)
(* the stop normalisation and of is_achromatic is below the resolution of  *)
(* the model: two numbers are within it exactly when they are equal.       *)
(***************************************************************************)
DeviceCMYK(c, m, y, k, a) == [t |-> "DeviceCMYK", v |-> <<c, m, y, k>>, a |-> a]

\* DeviceRGB.is_achromatic
is_achromatic(c) == c.v[1] = c.v[2] /\ c.v[2] = c.v[3]

\* DeviceRGB.to_gray: the sRGB luminance, without alpha
to_gray(c) == DeviceGray((2126 * c.v[1] + 7152 * c.v[2] + 722 * c.v[3]) \div 10000, None)

\* DeviceRGB(c.g, c.g, c.g) of a DeviceGray c
PromoteToRGB(c) == IF c.t = "DeviceGray" THEN DeviceRGB(c.v[1], c.v[1], c.v[1], None) ELSE c

\* what Gradient._convert_colors returns
Palette(color_space, colors, alphas) ==
    [color_space |-> color_space, colors |-> colors, alphas |-> alphas]

\* the set `spaces` of _convert_colors
ColorSpaces(colors) == {colors[i].t : i \in DOMAIN colors}

\* the list `alphas` of _convert_colors: the colour's alpha, 1.0 when it has none
Alphas(colors) ==
    [i \in DOMAIN colors |-> IF colors[i].a # None THEN colors[i].a.v ELSE Unit]

ConvertPalette_gray_rgb_stays_mixed(colors) ==
    IF Len(colors) < 2 THEN Raise("ValueError", colors)
    ELSE IF "DeviceCMYK" \in ColorSpaces(colors) /\ Cardinality(ColorSpaces(colors)) > 1
    THEN Raise("ValueError", colors)
    ELSE IF ColorSpaces(colors) = {"DeviceCMYK"}
    THEN Returned(Palette("DeviceCMYK", colors, Alphas(colors)))
    ELSE IF ColorSpaces(colors) = {"DeviceGray"}
    THEN Returned(Palette("DeviceGray", colors, Alphas(colors)))
    ELSE IF ColorSpaces(colors) = {"DeviceRGB"}
            /\ \A i \in DOMAIN colors : is_achromatic(colors[i])
    THEN Returned(Palette("DeviceGray", [i \in DOMAIN colors |-> to_gray(colors[i])],
                          Alphas(colors)))
    ELSE Returned(Palette("DeviceRGB", colors, Alphas(colors)))

\* Gradient._convert_colors on the Device* instances of its step 1: the length
\* check and steps 2 to 6
ConvertPalette(colors) ==
    IF Len(colors) < 2 THEN Raise("ValueError", colors)
    ELSE IF "DeviceCMYK" \in ColorSpaces(colors) /\ Cardinality(ColorSpaces(colors)) > 1
    THEN Raise("ValueError", colors)
    ELSE IF ColorSpaces(colors) = {"DeviceCMYK"}
    THEN Returned(Palette("DeviceCMYK", colors, Alphas(colors)))
    ELSE IF ColorSpaces(colors) = {"DeviceGray", "DeviceRGB"}
    THEN Returned(Palette("DeviceRGB", [i \in DOMAIN colors |-> PromoteToRGB(colors[i])],
                          Alphas(colors)))
    ELSE IF ColorSpaces(colors) = {"DeviceGray"}
    THEN Returned(Palette("DeviceGray", colors, Alphas(colors)))
    ELSE IF ColorSpaces(colors) = {"DeviceRGB"}
            /\ \A i \in DOMAIN colors : is_achromatic(colors[i])
    THEN Returned(Palette("DeviceGray", [i \in DOMAIN colors |-> to_gray(colors[i])],
                          Alphas(colors)))
    ELSE Returned(Palette("DeviceRGB", colors, Alphas(colors)))

\* a colour given as a tuple of 8-bit components
ColorTuple(r, g, b) == [t |-> "tuple", v |-> <<r, g, b>>]

\* convert_to_device_color: a Device* instance is returned as it is; of a tuple,
\* (0, 0, 0) is a DeviceGray and anything else a DeviceRGB
convert_to_device_color(c) ==
    IF c.t \in {"DeviceGray", "DeviceRGB", "DeviceCMYK"} THEN c
    ELSE IF c.v = <<0, 0, 0>> THEN DeviceGray((c.v[1] * Unit) \div 255, None)
    ELSE DeviceRGB((c.v[1] * Unit) \div 255, (c.v[2] * Unit) \div 255,
                   (c.v[3] * Unit) \div 255, None)

\* step 1 of Gradient._convert_colors
ToDeviceColors(colors) == [i \in DOMAIN colors |-> convert_to_device_color(colors[i])]

\* Gradient._convert_colors
ConvertColors(colors) == ConvertPalette(ToDeviceColors(colors))

\* `bounds if bounds else [(i + 1) / (len(colors) - 1) for i in range(len(colors) - 2)]`
BoundsOrDefault(bounds, n) ==
    IF bounds # <<>> THEN bounds
    ELSE [i \in 1..(n - 2) |-> (i * Unit) \div (n - 1)]

\* Gradient.__init__ after _convert_colors returned the palette: the bounds and their
\* length check (no background)
GradientWithPalette(palette, bounds, extend_before, extend_after) ==
    IF Len(BoundsOrDefault(bounds, Len(palette.colors))) # Len(palette.colors) - 2
    THEN Raise("ValueError", palette)
    ELSE Returned([color_space |-> palette.color_space, colors |-> palette.colors,
                   alphas |-> palette.alphas,
                   bounds |-> BoundsOrDefault(bounds, Len(palette.colors)),
                   extend_before |-> extend_before, extend_after |-> extend_after])

\* Gradient.__init__(colors, None, extend_before, extend_after, bounds), which
\* LinearGradient and RadialGradient call
NewGradient(colors, bounds, extend_before, extend_after) ==
    IF ConvertColors(colors).exc # "none" THEN ConvertColors(colors)
    ELSE GradientWithPalette(ConvertColors(colors).obj, bounds,
                             extend_before, extend_after)

GradientStop(off, color) == [off |-> off, color |-> color]

\* `0.0 if off < 0.0 else 1.0 if off > 1.0 else float(off)`
ClampOffset(off) == IF off < 0 THEN 0 ELSE IF off > Unit THEN Unit ELSE off

RECURSIVE InsertStable(_, _)
\* the place a stable sort by offset gives x in a sorted list: after every stop
\* whose offset is not larger
InsertStable(sorted, x) ==
    IF sorted = <<>> THEN <<x>>
    ELSE IF Head(sorted).off <= x.off THEN <<Head(sorted)>> \o InsertStable(Tail(sorted), x)
    ELSE <<x>> \o sorted

RECURSIVE ClampAndSort(_, _, _)
\* step 1 of the shape functions: the stops from i on are clamped and sorted into acc
\* (list.sort is stable)
ClampAndSort(stops, i, acc) ==
    IF i > Len(stops) THEN acc
    ELSE ClampAndSort(stops, i + 1,
                      InsertStable(acc, GradientStop(ClampOffset(stops[i].off),
                                                     stops[i].color)))

RECURSIVE MergeDuplicateStops_first_wins(_, _, _)
MergeDuplicateStops_first_wins(normalized, i, acc) ==
    IF i > Len(normalized) THEN acc
    ELSE IF acc # <<>> /\ acc[Len(acc)].off = normalized[i].off
    THEN MergeDuplicateStops_first_wins(normalized, i + 1, acc)
    ELSE MergeDuplicateStops_first_wins(normalized, i + 1, Append(acc, normalized[i]))

RECURSIVE MergeDuplicateStops(_, _, _)
\* step 2: a stop at the offset of the one before replaces it
MergeDuplicateStops(normalized, i, acc) ==
    IF i > Len(normalized) THEN acc
    ELSE IF acc # <<>> /\ acc[Len(acc)].off = normalized[i].off
    THEN MergeDuplicateStops(normalized, i + 1,
                             [acc EXCEPT ![Len(acc)] = normalized[i]])
    ELSE MergeDuplicateStops(normalized, i + 1, Append(acc, normalized[i]))

\* step 3: a single stop becomes a flat two-stop list
FlattenSingleStop(stops) ==
    IF Len(stops) = 1
    THEN <<GradientStop(0, stops[1].color), GradientStop(Unit, stops[1].color)>>
    ELSE stops

\* step 4: a stop at 0 and a stop at 1 are added when missing
EnsureEndpoints(stops) ==
    (IF stops[1].off # 0 THEN <<GradientStop(0, stops[1].color)>> ELSE <<>>)
    \o stops
    \o (IF stops[Len(stops)].off # Unit
        THEN <<GradientStop(Unit, stops[Len(stops)].color)>> ELSE <<>>)

\* steps 1 to 4 of shape_linear_gradient and of shape_radial_gradient
NormalizeStops(stops) ==
    EnsureEndpoints(FlattenSingleStop(
        MergeDuplicateStops(ClampAndSort(stops, 1, <<>>), 1, <<>>)))

\* `colors = [color for _, color in merged]`
StopColors(stops) == [i \in DOMAIN stops |-> stops[i].color]

\* `bounds = [offset for offset, _ in merged[1:-1]]`
StopBounds(stops) == [i \in 1..(Len(stops) - 2) |-> stops[i + 1].off]

\* shape_linear_gradient(x1, y1, x2, y2, stops)
shape_linear_gradient(stops) ==
    IF stops = <<>> THEN Raise("ValueError", stops)
    ELSE NewGradient(StopColors(NormalizeStops(stops)), StopBounds(NormalizeStops(stops)),
                     TRUE, TRUE)

\* shape_radial_gradient(cx, cy, r, stops)
shape_radial_gradient(r, stops) ==
    IF stops = <<>> THEN Raise("ValueError", stops)
    ELSE IF r < 0 THEN Raise("ValueError", stops)
    ELSE NewGradient(StopColors(NormalizeStops(stops)), StopBounds(NormalizeStops(stops)),
                     TRUE, TRUE)

(***************************************************************************)
(* PaintSoftMask and PaintComposite                                        *)
(***************************************************************************)
\* PaintSoftMask(mask_path, invert): the mask path is a deep copy forced to an
\* opaque white non-zero fill ("#ffffff" is rgb8(255, 255, 255), a DeviceGray)
NewPaintSoftMask(mask_path, invert) ==
    [t |-> "PaintSoftMask",
     mask_path |-> [DeepcopyItem(mask_path) EXCEPT
                       !.root.style =
                           set_allow_transparency(
                               set_fill_color(
                                   set_fill_opacity(
                                       set_paint_rule(@, Enum("FILL_NONZERO")).obj,
                                       Num(Unit)).obj,
                                   DeviceGray(Unit, None)).obj,
                               Bool(FALSE)).obj],
     invert |-> invert]

CompositingOperations ==
    {"SOURCE_OVER", "DESTINATION_OVER", "SOURCE_IN", "DESTINATION_IN", "SOURCE_OUT",
     "DESTINATION_OUT", "SOURCE_ATOP", "DESTINATION_ATOP", "XOR", "CLEAR"}

\* PaintComposite._Step(draw, mask_from, invert=False)
Step(draw, mask_from, invert) == [draw |-> draw, mask_from |-> mask_from, invert |-> invert]

MODES_xor_second_step_not_inverted ==
    [mode \in CompositingOperations |->
        CASE mode = "SOURCE_OVER" ->
                <<Step("backdrop", None, FALSE), Step("source", None, FALSE)>>
          [] mode = "DESTINATION_OVER" ->
                <<Step("source", None, FALSE), Step("backdrop", None, FALSE)>>
          [] mode = "SOURCE_IN" -> <<Step("source", Str("backdrop"), FALSE)>>
          [] mode = "DESTINATION_IN" -> <<Step("backdrop", Str("source"), FALSE)>>
          [] mode = "SOURCE_OUT" -> <<Step("source", Str("backdrop"), TRUE)>>
          [] mode = "DESTINATION_OUT" -> <<Step("backdrop", Str("source"), TRUE)>>
          [] mode = "SOURCE_ATOP" ->
                <<Step("backdrop", Str("source"), TRUE), Step("source", Str("backdrop"), FALSE)>>
          [] mode = "DESTINATION_ATOP" ->
                <<Step("source", Str("backdrop"), TRUE), Step("backdrop", Str("source"), FALSE)>>
          [] mode = "XOR" ->
                <<Step("source", Str("backdrop"), TRUE), Step("backdrop", Str("source"), FALSE)>>
          [] mode = "CLEAR" -> <<>>]

\* PaintComposite._MODES
MODES ==
    [mode \in CompositingOperations |->
        CASE mode = "SOURCE_OVER" ->
                <<Step("backdrop", None, FALSE), Step("source", None, FALSE)>>
          [] mode = "DESTINATION_OVER" ->
                <<Step("source", None, FALSE), Step("backdrop", None, FALSE)>>
          [] mode = "SOURCE_IN" -> <<Step("source", Str("backdrop"), FALSE)>>
          [] mode = "DESTINATION_IN" -> <<Step("backdrop", Str("source"), FALSE)>>
          [] mode = "SOURCE_OUT" -> <<Step("source", Str("backdrop"), TRUE)>>
          [] mode = "DESTINATION_OUT" -> <<Step("backdrop", Str("source"), TRUE)>>
          [] mode = "SOURCE_ATOP" ->
                <<Step("backdrop", Str("source"), TRUE), Step("source", Str("backdrop"), FALSE)>>
          [] mode = "DESTINATION_ATOP" ->
                <<Step("source", Str("backdrop"), TRUE), Step("backdrop", Str("source"), FALSE)>>
          [] mode = "XOR" ->
                <<Step("source", Str("backdrop"), TRUE), Step("backdrop", Str("source"), TRUE)>>
          [] mode = "CLEAR" -> <<>>]

\* PaintComposite(backdrop, source, operation)
NewPaintComposite(backdrop, source, operation) ==
    [cls |-> "PaintComposite", backdrop |-> backdrop, source |-> source,
     mode |-> operation]

\* PaintComposite._with_mask: a deep copy whose style carries the soft mask
with_mask(p, mask_from, invert) ==
    [DeepcopyItem(p) EXCEPT
        !.root.style = set_soft_mask(@, NewPaintSoftMask(mask_from, invert)).obj]

\* PaintComposite._pick
pick(comp, which) == IF which = "source" THEN comp.source ELSE comp.backdrop

\* the path a step of PaintComposite.render renders
StepPath(comp, st) ==
    IF st.mask_from # None
    THEN with_mask(pick(comp, st.draw), pick(comp, st.mask_from.v), st.invert)
    ELSE pick(comp, st.draw)

RECURSIVE StepsFrom(_, _, _, _)
\* one pass of the loop of PaintComposite.render, r being what path.render returned
StepsAfter(comp, rest, style, parts, r) ==
    StepsFrom(comp, rest, style, Rendered(parts \o r.ops, r.last, r.init))

\* the loop `for st in steps` of PaintComposite.render
StepsFrom(comp, steps, style, sofar) ==
    IF steps = <<>> THEN sofar
    ELSE StepsAfter(comp, Tail(steps), style, sofar.ops,
                    PaintedPathRender(StepPath(comp, Head(steps)), style,
                                      sofar.last, sofar.init))

\* PaintComposite.render
PaintCompositeRender(comp, style, last_item, initial_point) ==
    IF MODES[comp.mode] = <<>> THEN Rendered(<<>>, last_item, initial_point)
    ELSE StepsFrom(comp, MODES[comp.mode], style,
                   Rendered(<<>>, last_item, initial_point))

\* an operand after PaintComposite.render: PaintedPath.render closes the open subpath
\* of the path it is called on, which is the operand itself in a step without mask
OperandAfterRender(comp, which) ==
    IF \E i \in DOMAIN MODES[comp.mode] :
           MODES[comp.mode][i].draw = which /\ MODES[comp.mode][i].mask_from = None
    THEN InsertImplicitCloseIfOpen(pick(comp, which))
    ELSE pick(comp, which)

(***************************************************************************)
(* Bounding boxes of the closed shapes                                     *)
(***************************************************************************)

\* Ellipse(radii, center)
Ellipse(radii, center) == [cls |-> "Ellipse", radii |-> radii, center |-> center]

\* Arc(radii, 0, False, True, end): the quarter arcs of an ellipse
Arc(radii, end) == [cls |-> "Arc", radii |-> radii, pt |-> end]

\* the variant of Ellipse._decompose that draws the ellipse whatever its radii
EllipseDecompose_without_radius_test(el) ==
    <<Move(Point(el.center.x + Abs(el.radii.x), el.center.y)),
      Arc(Point(Abs(el.radii.x), Abs(el.radii.y)),
          Point(el.center.x, el.center.y + Abs(el.radii.y))),
      Arc(Point(Abs(el.radii.x), Abs(el.radii.y)),
          Point(el.center.x - Abs(el.radii.x), el.center.y)),
      Arc(Point(Abs(el.radii.x), Abs(el.radii.y)),
          Point(el.center.x, el.center.y - Abs(el.radii.y))),
      Arc(Point(Abs(el.radii.x), Abs(el.radii.y)),
          Point(el.center.x + Abs(el.radii.x), el.center.y)),
      Close>>

\* Ellipse._decompose: nothing unless both radii are non-zero
EllipseDecompose(el) ==
    IF Abs(el.radii.x) # 0 /\ Abs(el.radii.y) # 0
    THEN <<Move(Point(el.center.x + Abs(el.radii.x), el.center.y)),
           Arc(Point(Abs(el.radii.x), Abs(el.radii.y)),
               Point(el.center.x, el.center.y + Abs(el.radii.y))),
           Arc(Point(Abs(el.radii.x), Abs(el.radii.y)),
               Point(el.center.x - Abs(el.radii.x), el.center.y)),
           Arc(Point(Abs(el.radii.x), Abs(el.radii.y)),
               Point(el.center.x, el.center.y - Abs(el.radii.y))),
           Arc(Point(Abs(el.radii.x), Abs(el.radii.y)),
               Point(el.center.x + Abs(el.radii.x), el.center.y)),
           Close>>
    ELSE <<>>

\* Arc.bounding_box for a quarter arc between two ends of the axes of its ellipse:
\* the one curve that approximates it runs monotonically from start to end in both
\* coordinates, so the merged box of its segments is the box of the two ends
ArcBoundingBox(item, start) == Measured(from_points(<<start, item.pt>>), item.pt)

\* item.bounding_box(current_point) inside the loops of the shapes
ComponentBoundingBox(item, start) ==
    IF item.cls = "Arc" THEN ArcBoundingBox(item, start)
    ELSE PrimitiveBoundingBox(item, start)

RECURSIVE MergeComponentBoxes(_, _, _, _)
\* the loop of RoundedRectangle.bounding_box and Ellipse.bounding_box from item i on
MergeComponentBoxes(items, i, bbox, current_point) ==
    IF i > Len(items) THEN bbox
    ELSE MergeComponentBoxes(
            items, i + 1,
            BoundingBoxMerge(bbox, ComponentBoundingBox(items[i], current_point).bbox),
            ComponentBoundingBox(items[i], current_point).pt)

\* RoundedRectangle.bounding_box
RoundedRectangleBoundingBox(el, start) ==
    Measured(MergeComponentBoxes(RoundedRectangleDecompose(el), 1, BoundingBoxEmpty, start),
             el.org)

\* Ellipse.bounding_box
EllipseBoundingBox(el, start) ==
    Measured(MergeComponentBoxes(EllipseDecompose(el), 1, BoundingBoxEmpty, start),
             el.center)

\* bounding_box of a Rectangle, a RoundedRectangle or an Ellipse
ShapeBoundingBox(el, start) ==
    CASE el.cls = "Rectangle"        -> PrimitiveBoundingBox(el, start)
      [] el.cls = "RoundedRectangle" -> RoundedRectangleBoundingBox(el, start)
      [] el.cls = "Ellipse"          -> EllipseBoundingBox(el, start)

(***************************************************************************)
(* Bounding box of a cubic Bezier curve.  The parameter t runs over the    *)
(* grid 0/Samples .. Samples/Samples; a value of the curve is kept as the  *)
(* integer value * Samples^3, and a real root t of the derivative is kept  *)
(* as the fraction n/d with the square root taken to 1/RootScale, and is   *)
(* evaluated at the two grid points around it.                             *)
(***************************************************************************)

Samples == 20

RootScale == 100

\* _eval_cubic_bezier_1d at t = k/Samples, times Samples^3
eval_cubic_bezier_1d(k, p0, p1, p2, p3) ==
    (Samples - k) * (Samples - k) * (Samples - k) * p0
    + 3 * (Samples - k) * (Samples - k) * k * p1
    + 3 * (Samples - k) * k * k * p2
    + k * k * k * p3

RECURSIVE SqrtBetween(_, _, _)
\* the largest r in lo..hi with r * r <= n
SqrtBetween(n, lo, hi) ==
    IF lo = hi THEN lo
    ELSE IF ((lo + hi + 1) \div 2) * ((lo + hi + 1) \div 2) <= n
         THEN SqrtBetween(n, (lo + hi + 1) \div 2, hi)
         ELSE SqrtBetween(n, lo, ((lo + hi + 1) \div 2) - 1)

\* disc**0.5, times RootScale
ScaledRoot(disc) == SqrtBetween(disc * RootScale * RootScale, 0, (disc + 1) * RootScale)

\* the fraction n/d with a positive denominator
Fraction(n, d) == IF d < 0 THEN [n |-> -n, d |-> -d] ELSE [n |-> n, d |-> d]

\* `0 < t < 1`
StrictlyInside(t) == 0 < t.n /\ t.n < t.d

\* the variant of the roots that keeps only (-b + r) / (2a)
CriticalTs_first_root_only(a, b, c) ==
    IF a = 0
    THEN IF b # 0 THEN {t \in {Fraction(-c, b)} : StrictlyInside(t)} ELSE {}
    ELSE IF b * b - 4 * a * c >= 0
    THEN {t \in {Fraction(-b * RootScale + ScaledRoot(b * b - 4 * a * c), 2 * a * RootScale)} :
                StrictlyInside(t)}
    ELSE {}

\* the roots of a t^2 + b t + c that lie strictly inside (0, 1)
CriticalTs(a, b, c) ==
    IF a = 0
    THEN IF b # 0 THEN {t \in {Fraction(-c, b)} : StrictlyInside(t)} ELSE {}
    ELSE IF b * b - 4 * a * c >= 0
    THEN {t \in {Fraction(-b * RootScale + ScaledRoot(b * b - 4 * a * c), 2 * a * RootScale),
                 Fraction(-b * RootScale - ScaledRoot(b * b - 4 * a * c), 2 * a * RootScale)} :
                StrictlyInside(t)}
    ELSE {}

\* _cubic_bezier_critical_ts_1d; the control values are whole numbers, so abs(a) < eps
\* is a = 0
cubic_bezier_critical_ts_1d(p0, p1, p2, p3) ==
    CriticalTs(-3 * p0 + 9 * p1 - 9 * p2 + 3 * p3, 6 * p0 - 12 * p1 + 6 * p2, -3 * p0 + 3 * p1)

\* the grid points around the parameters ts, with the grid points of t = 0 and t = 1
GridPointsOf(ts) ==
    {0, Samples}
    \cup {(t.n * Samples) \div t.d : t \in ts}
    \cup {((t.n * Samples) + t.d - 1) \div t.d : t \in ts}

\* `[_eval_cubic_bezier_1d(t, *p) for t in [0, 1] + _cubic_bezier_critical_ts_1d(*p)]`
CandidateValues(p0, p1, p2, p3) ==
    {eval_cubic_bezier_1d(k, p0, p1, p2, p3) :
        k \in GridPointsOf(cubic_bezier_critical_ts_1d(p0, p1, p2, p3))}

\* BezierCurve.bounding_box; the box is in units of 1/Samples^3
BezierCurveBoundingBox(item, start) ==
    Measured(BoundingBox(Min(CandidateValues(start.x, item.c1.x, item.c2.x, item.end.x)),
                         Min(CandidateValues(start.y, item.c1.y, item.c2.y, item.end.y)),
                         Max(CandidateValues(start.x, item.c1.x, item.c2.x, item.end.x)),
                         Max(CandidateValues(start.y, item.c1.y, item.c2.y, item.end.y))),
             item.end)

(***************************************************************************)
(* DrawingContext.render                                                   *)
(***************************************************************************)

\* the style of DrawingContext._setup_render_prereqs
SetupRenderStyle(style) ==
    [style EXCEPT !.auto_close = Bool(TRUE), !.paint_rule = Enum("AUTO"),
                  !.intersection_rule = Enum("NONZERO")]

\* Transform.scaling(x=1, y=-1).about(x=0, y=height / 2).scale(scale)
PageTransform(scale, height) == Transform(scale, 0, 0, -scale, 0, height * scale)

\* the "gs" and "d" entries DrawingContext.render inserts when the style registers
DrawingStateOps(style) ==
    IF RegisterGraphicsStyle(style) # None
    THEN GsOps(RegisterGraphicsStyle(style))
         \o <<DashOp(style.stroke_dash_pattern, style.stroke_dash_phase)>>
    ELSE <<>>

\* DrawingContext.render once the sub-items are rendered: nothing when no sub-item
\* rendered anything, else q, the page transform, the state entries, the items, Q
DrawingContextAssemble(style, scale, height, item_ops) ==
    IF item_ops = <<>> THEN <<>>
    ELSE <<Op("q", <<>>, "DrawingContext"), TransformRender(PageTransform(scale, height))>>
         \o DrawingStateOps(style) \o item_ops \o <<Op("Q", <<>>, "DrawingContext")>>

RECURSIVE RenderSubitems(_, _, _, _)
\* the rest of the loop of DrawingContext.render after a sub-item gave r
SubitemsAfter(r, items, style) == Chain(r, RenderSubitems(items, style, r.last, r.init))

\* the loop of DrawingContext.render, `for item in self._subitems: rendered, last_item,
\* first_point = item.render(registry, style, last_item, first_point)`
RenderSubitems(items, style, last_item, initial_point) ==
    IF items = <<>> THEN Rendered(<<>>, last_item, initial_point)
    ELSE SubitemsAfter(
            IF Head(items).cls = "PaintComposite"
            THEN PaintCompositeRender(Head(items), style, last_item, initial_point)
            ELSE RenderItem(Head(items), style, last_item, initial_point),
            Tail(items), style)

\* DrawingContext.render(registry, first_point, scale, height, starting_style)
DrawingContextRender(_subitems, first_point, scale, height, starting_style) ==
    IF _subitems = <<>> THEN <<>>
    ELSE DrawingContextAssemble(
            SetupRenderStyle(starting_style), scale, height,
            RenderSubitems(_subitems, SetupRenderStyle(starting_style),
                           Move(first_point), first_point).ops)

(***************************************************************************)
(* GradientPaint and the paint objects a style refers to.  A GradientPaint *)
(* and a PaintSoftMask are objects with attributes that can be assigned;   *)
(* a style holds a reference to the object, and the model keeps the        *)
(* objects in a function from their identity to their attributes.          *)
(***************************************************************************)

\* GradientPaint(gradient, units, gradient_transform), as an object
GradientPaint(units, gradient_transform) ==
    [cls |-> "GradientPaint", units |-> units, gradient_transform |-> gradient_transform]

\* the attributes of a PaintSoftMask that can be assigned
SoftMaskObject(invert) == [cls |-> "PaintSoftMask", invert |-> invert]

\* the reference to the GradientPaint or PaintSoftMask with identity id
GradientPaintRef(id) == [t |-> "GradientPaint", id |-> id]

SoftMaskRef(id) == [t |-> "PaintSoftMask", id |-> id]

\* GradientPaint._matrix_for(bbox)
MatrixFor(paint, bbox) ==
    IF paint.units = Enum("OBJECT_BOUNDING_BOX")
    THEN TransformMatmul(paint.gradient_transform,
                         Transform((bbox.x1 - bbox.x0) \div Unit, 0, 0,
                                   (bbox.y1 - bbox.y0) \div Unit, bbox.x0, bbox.y0))
    ELSE paint.gradient_transform

\* GradientPaint.emit_fill: "/Pattern cs /<name> scn", the name standing for the
\* pattern registered with the matrix
EmitFill(paint, bbox) == [op |-> "scn", matrix |-> MatrixFor(paint, bbox)]

\* PaintSoftMask.serialize: the transfer function is written when invert is set
SoftMaskSerialize(mask) == [op |-> "SMask", tr |-> mask.invert]

\* what the paint objects of a context's own style contribute to its render: the
\* pattern of a gradient fill colour (build_render_list) and the soft mask of the
\* dictionary, objects being the paint objects as they are now
PaintObjectOps(gc, objects) ==
    [fill |-> IF gc.style.fill_color \notin {None, INHERIT}
                 /\ gc.style.fill_color.t = "GradientPaint"
              THEN EmitFill(objects[gc.style.fill_color.id],
                            GraphicsContextBoundingBox(gc, Point(0, 0), gc.style, FALSE).bbox)
              ELSE None,
     mask |-> IF gc.style.soft_mask # INHERIT
              THEN SoftMaskSerialize(objects[gc.style.soft_mask.id])
              ELSE None]

(***************************************************************************)
(* Arc and RelativeArc: the approximation of an elliptical arc by Bezier   *)
(* curves.  The operators follow Arc._approximate_arc for arcs with        *)
(* rotation 0 whose chord is horizontal or vertical and at least as long   *)
(* as the diameter along it: there every quantity of the computation is a  *)
(* ratio of whole numbers (the sweep is a half turn around the middle of   *)
(* the chord).  The division that precedes the square root is modelled for *)
(* every arc.                                                              *)
(***************************************************************************)

\* `kappa = 4 / 3 * math.tan(sweep_segment / 4)` for a quarter turn, in 1/KappaScale
KappaScale == 1000

Kappa == 552

Sgn(n) == IF n < 0 THEN -1 ELSE IF n > 0 THEN 1 ELSE 0

\* Arc(radii, rotation, large, sweep, end)
ArcElement(radii, large, sweep, end) ==
    [cls |-> "Arc", radii |-> radii, rotation |-> 0, large |-> large, sweep |-> sweep,
     pt |-> end]

\* RelativeArc(radii, rotation, large, sweep, end)
RelativeArcElement(radii, large, sweep, end) ==
    [cls |-> "RelativeArc", radii |-> radii, rotation |-> 0, large |-> large,
     sweep |-> sweep, pt |-> end]

\* the Arc that RelativeArc.bounding_box and RelativeArc.render build
AbsoluteArc(item, last_point) ==
    ArcElement(item.radii, item.large, item.sweep, PointAdd(last_point, item.pt))

\* `last_item.end_point - self.end`, twice the `prime` of a rotation 0, in whole units
ArcChord(item, last_point) ==
    Point((last_point.x - item.pt.x) \div Unit, (last_point.y - item.pt.y) \div Unit)

\* `rxpy2 + rypx2`, the divisor under the square root, times 4, in whole units
ArcDenominator(item, last_point) ==
    ((item.radii.x \div Unit) * ArcChord(item, last_point).y)
        * ((item.radii.x \div Unit) * ArcChord(item, last_point).y)
    + ((item.radii.y \div Unit) * ArcChord(item, last_point).x)
        * ((item.radii.y \div Unit) * ArcChord(item, last_point).x)

\* `rxry2` times 4, in whole units: lam_da > 1 is ArcDenominator > ArcRadiiProduct
ArcRadiiProduct(item) ==
    4 * ((item.radii.x \div Unit) * (item.radii.y \div Unit))
      * ((item.radii.x \div Unit) * (item.radii.y \div Unit))

\* the arcs whose approximation the operators below compute
ArcWithinModel(item, last_point) ==
    \/ ArcDenominator(item, last_point) = 0
    \/ /\ ArcChord(item, last_point).x = 0 \/ ArcChord(item, last_point).y = 0
       /\ ArcDenominator(item, last_point) >= ArcRadiiProduct(item)

\* `radii = Point(x=(lam_da**0.5) * radii.x, y=(lam_da**0.5) * radii.y)` when lam_da > 1
ArcScaledRadii(item, last_point) ==
    IF ArcDenominator(item, last_point) = ArcRadiiProduct(item) THEN item.radii
    ELSE IF ArcChord(item, last_point).y = 0
    THEN Point((Abs(ArcChord(item, last_point).x) * Unit) \div 2,
               (item.radii.y * Abs(ArcChord(item, last_point).x))
                   \div (2 * (item.radii.x \div Unit)))
    ELSE Point((item.radii.x * Abs(ArcChord(item, last_point).y))
                   \div (2 * (item.radii.y \div Unit)),
               (Abs(ArcChord(item, last_point).y) * Unit) \div 2)

\* `(centerprime @ forward) + ((last_item.end_point + self.end) * 0.5)`, centerprime
\* being zero when the radii were scaled or lam_da = 1
ArcCenter(item, last_point) ==
    Point((last_point.x + item.pt.x) \div 2, (last_point.y + item.pt.y) \div 2)

\* the point (ux, uy) / KappaScale of the unit circle under final_tf: flipped for a
\* negative sweep, rotated by theta (0 or a half turn for a horizontal chord, a
\* quarter turn either way for a vertical one), scaled by the radii and moved to the
\* center
ArcPlace(item, last_point, ux, uy) ==
    LET s == IF item.sweep THEN 1 ELSE -1
        r == ArcScaledRadii(item, last_point)
        c == ArcCenter(item, last_point)
        g == Sgn(ArcChord(item, last_point).x) + Sgn(ArcChord(item, last_point).y)
    IN  IF ArcChord(item, last_point).y = 0
        THEN Point(c.x + g * ((ux * r.x) \div KappaScale),
                   c.y + g * s * ((uy * r.y) \div KappaScale))
        ELSE Point(c.x - g * s * ((uy * r.x) \div KappaScale),
                   c.y + g * ((ux * r.y) \div KappaScale))

\* Arc._approximate_arc: the division by `rxpy2 + rypx2` raises when the end point is
\* the end point of last_item; otherwise the two curves of subdivide_sweep for a half
\* turn
ApproximateArc(item, last_point) ==
    IF ArcDenominator(item, last_point) = 0
    THEN Raise("ZeroDivisionError", None)
    ELSE CASE ArcWithinModel(item, last_point) ->
            Returned(<<BezierCurve(ArcPlace(item, last_point, KappaScale, Kappa),
                                   ArcPlace(item, last_point, Kappa, KappaScale),
                                   ArcPlace(item, last_point, 0, KappaScale)),
                       BezierCurve(ArcPlace(item, last_point, -Kappa, KappaScale),
                                   ArcPlace(item, last_point, -KappaScale, Kappa),
                                   ArcPlace(item, last_point, -KappaScale, 0))>>)

\* Arc.bounding_box; the box of a curve that sweeps no more than a quarter turn from
\* an end of an axis is the box of its two end points
ArcBoundingBoxOutcome(item, start) ==
    LET curves == ApproximateArc(item, start)
    IN  IF curves.exc # "none" THEN curves
        ELSE Returned(Measured(
                IF curves.obj = <<>> THEN BoundingBoxEmpty
                ELSE from_points(<<start>> \o [i \in DOMAIN curves.obj |-> curves.obj[i].end]),
                item.pt))

\* Arc.render
ArcRender(item, last_item, initial_point) ==
    LET curves == ApproximateArc(item, EndPoint(last_item))
    IN  IF curves.exc # "none" THEN curves
        ELSE IF curves.obj = <<>> THEN Returned(Rendered(<<>>, last_item, initial_point))
        ELSE Returned(Rendered(
                [i \in DOMAIN curves.obj |->
                    RenderCurveOp(curves.obj[i].c1, curves.obj[i].c2, curves.obj[i].end,
                                  "BezierCurve")],
                curves.obj[Len(curves.obj)], initial_point))

\* PaintedPath.arc_to: the element it adds
ArcToElement(rx, ry, large_arc, positive_sweep, x, y) ==
    IF rx = 0 \/ ry = 0 THEN Line(Point(x, y))
    ELSE ArcElement(Point(Abs(rx), Abs(ry)), large_arc, positive_sweep, Point(x, y))

\* PaintedPath.arc_relative: the element it adds
ArcRelativeElement(rx, ry, large_arc, positive_sweep, dx, dy) ==
    IF rx = 0 \/ ry = 0 THEN RelativeLine(Point(dx, dy))
    ELSE RelativeArcElement(Point(Abs(rx), Abs(ry)), large_arc, positive_sweep,
                            Point(dx, dy))

\* bounding_box of the element that arc_to or arc_relative added
ArcPathBoundingBox(el, start) ==
    CASE el.cls = "Arc" -> ArcBoundingBoxOutcome(el, start)
      [] el.cls = "RelativeArc" -> ArcBoundingBoxOutcome(AbsoluteArc(el, start), start)
      [] el.cls = "Line" -> Returned(Measured(from_points(<<start, el.pt>>), el.pt))
      [] el.cls = "RelativeLine" ->
            Returned(Measured(from_points(<<start, PointAdd(start, el.pt)>>),
                              PointAdd(start, el.pt)))

\* render of the element that arc_to or arc_relative added
ArcPathRender(el, last_item, initial_point) ==
    CASE el.cls = "Arc" -> ArcRender(el, last_item, initial_point)
      [] el.cls = "RelativeArc" ->
            ArcRender(AbsoluteArc(el, EndPoint(last_item)), last_item, initial_point)
      [] el.cls = "Line" -> Returned(LineRender(el, last_item, initial_point))
      [] el.cls = "RelativeLine" ->
            Returned(RelativeLineRender(el, last_item, initial_point))

(***************************************************************************)
(* Style specification: two styles are built by attribute assignment, then  *)
(* merged, then the merged style's paint rule is resolved                   *)
(***************************************************************************)
MaxStyleSets == 3

\* the assignments `style.<name> = <value>` the style specification draws from
StyleAssignments ==
    {<<"fill_color", v>> : v \in {None, DeviceRGB(Unit, 0, 0, None),
                                  DeviceRGB(Unit, 0, 0, Num(Unit \div 2))}}
    \cup {<<"stroke_color", v>> : v \in {None, DeviceGray(0, None),
                                         DeviceGray(0, Num(Unit \div 2))}}
    \cup {<<"fill_opacity", v>> : v \in {INHERIT, None, Num(3 * (Unit \div 10))}}
    \cup {<<"stroke_opacity", v>> : v \in {INHERIT, None, Num(3 * (Unit \div 10))}}
    \cup {<<"stroke_width", v>> : v \in {INHERIT, None, Num(2 * Unit)}}
    \cup {<<"paint_rule", v>> : v \in {None, Enum("AUTO"), Enum("STROKE")}}
    \cup {<<"intersection_rule", v>> : v \in {Enum("NONZERO"), Enum("EVENODD")}}
    \cup {<<"auto_close", Bool(FALSE)>>, <<"allow_transparency", Bool(FALSE)>>,
          <<"blend_mode", Enum("MULTIPLY")>>, <<"stroke_cap_style", Enum("ROUND")>>,
          <<"stroke_join_style", Enum("BEVEL")>>, <<"stroke_miter_limit", Num(2 * Unit)>>,
          <<"stroke_dash_pattern", Num(Unit)>>, <<"stroke_dash_phase", Num(Unit)>>}

StyleInit ==
    /\ parent = NewStyle
    /\ child = NewStyle
    /\ merged = None
    /\ resolved = None
    /\ stylePc = [phase |-> "build", sets |-> 0]

\* parent.<name> = <value>
SetParent ==
    /\ stylePc.phase = "build"
    /\ stylePc.sets < MaxStyleSets
    /\ \E a \in StyleAssignments :
          /\ SetAttr(parent, a[1], a[2]).exc = "none"
          /\ parent' = SetAttr(parent, a[1], a[2]).obj
    /\ stylePc' = [stylePc EXCEPT !.sets = @ + 1]
    /\ UNCHANGED <<child, merged, resolved, notStyleVars>>

\* child.<name> = <value>
SetChild ==
    /\ stylePc.phase = "build"
    /\ stylePc.sets < MaxStyleSets
    /\ \E a \in StyleAssignments :
          /\ SetAttr(child, a[1], a[2]).exc = "none"
          /\ child' = SetAttr(child, a[1], a[2]).obj
    /\ stylePc' = [stylePc EXCEPT !.sets = @ + 1]
    /\ UNCHANGED <<parent, merged, resolved, notStyleVars>>

\* merged = GraphicsStyle.merge(parent, child)
DoMerge ==
    /\ stylePc.phase = "build"
    /\ merged' = Merge(parent, child)
    /\ stylePc' = [stylePc EXCEPT !.phase = "merged"]
    /\ UNCHANGED <<parent, child, resolved, notStyleVars>>

\* resolved = merged.resolve_paint_rule()
DoResolve ==
    /\ stylePc.phase = "merged"
    /\ resolved' = ResolvePaintRule(merged)
    /\ stylePc' = [stylePc EXCEPT !.phase = "resolved"]
    /\ UNCHANGED <<parent, child, merged, notStyleVars>>

StyleNext == SetParent \/ SetChild \/ DoMerge \/ DoResolve

(***************************************************************************)
(* Element specification: move and line elements are rendered one after     *)
(* the other, each from the result of the one before; next to it the same   *)
(* sequence is rendered with every relative element replaced by the         *)
(* absolute element at (previous end point + offset)                        *)
(***************************************************************************)
MaxElems == 2

Coords == {Unit, 2 * Unit, -(3 * (Unit \div 2))}

Points == {Point(x, y) : x \in Coords, y \in Coords}

ElemInit ==
    /\ elSeq = <<>>
    /\ elOut = Rendered(<<>>, Move(Point(0, 0)), Point(0, 0))
    /\ absOut = Rendered(<<>>, Move(Point(0, 0)), Point(0, 0))

\* the absolute element that stands for el after an element ending at prev
AbsoluteOf(el, prev) ==
    CASE el.cls = "RelativeMove" -> Move(PointAdd(prev, el.pt))
      [] el.cls = "RelativeLine" -> Line(PointAdd(prev, el.pt))
      [] el.cls = "RelativeHorizontalLine" -> HorizontalLine(prev.x + el.x)
      [] el.cls = "RelativeVerticalLine" -> VerticalLine(prev.y + el.y)
      [] OTHER -> el

\* rendered, last_item, initial_point = el.render(registry, style, last_item, initial_point)
RenderElement(el) ==
    /\ Len(elSeq) < MaxElems
    /\ LET r == PrimitiveRender(el, NewStyle, elOut.last, elOut.init)
           a == PrimitiveRender(AbsoluteOf(el, EndPoint(absOut.last)), NewStyle,
                                absOut.last, absOut.init)
       IN  /\ elOut' = Rendered(elOut.ops \o r.ops, r.last, r.init)
           /\ absOut' = Rendered(absOut.ops \o a.ops, a.last, a.init)
    /\ elSeq' = Append(elSeq, el)
    /\ UNCHANGED notElemVars

RenderMove == \E pt \in Points : RenderElement(Move(pt))

RenderRelativeMove == \E pt \in Points : RenderElement(RelativeMove(pt))

RenderLine == \E pt \in Points : RenderElement(Line(pt))

RenderRelativeLine == \E pt \in Points : RenderElement(RelativeLine(pt))

RenderHorizontalLine == \E x \in Coords : RenderElement(HorizontalLine(x))

RenderRelativeHorizontalLine == \E x \in Coords : RenderElement(RelativeHorizontalLine(x))

RenderVerticalLine == \E y \in Coords : RenderElement(VerticalLine(y))

RenderRelativeVerticalLine == \E y \in Coords : RenderElement(RelativeVerticalLine(y))

ElemNext ==
    \/ RenderMove \/ RenderRelativeMove \/ RenderLine \/ RenderRelativeLine
    \/ RenderHorizontalLine \/ RenderRelativeHorizontalLine
    \/ RenderVerticalLine \/ RenderRelativeVerticalLine

\* C10: rendering a sequence of move and line elements emits the coordinates of the
\* sequence with every relative element replaced by the absolute element at (previous
\* end point + offset), and every render returns an absolute element (a Move or a
\* Line) whose end point is the point just emitted.
C10_RelativeEqualsAbsolute ==
    /\ Words(elOut.ops) = Words(absOut.ops)
    /\ [i \in 1..Len(elOut.ops) |-> elOut.ops[i].op]
          = [i \in 1..Len(absOut.ops) |-> absOut.ops[i].op]
    /\ EndPoint(elOut.last) = EndPoint(absOut.last)
    /\ elOut.last.cls \in {"Move", "Line"}
    /\ elSeq # <<>> =>
          /\ Len(elOut.ops) = Len(elSeq)
          /\ elOut.ops[Len(elOut.ops)].args = PointRender(EndPoint(elOut.last))

\* Line to (1, 2) after a relative line from (1, 1): "1 2 l", end point (1, 2)
C10_Witness ==
    /\ elSeq = <<Move(Point(Unit, Unit)), RelativeLine(Point(Unit, Unit))>>
    /\ Words(elOut.ops) = <<"1", "1", "m", "2", "2", "l">>
    /\ elOut.last = Line(Point(2 * Unit, 2 * Unit))

(***************************************************************************)
(* Path specification: builder calls on one PaintedPath, then its render    *)
(***************************************************************************)
MaxCalls == 3

PathPoints == {Point(Unit, Unit), Point(2 * Unit, 0)}

\* the style a DrawingContext hands down: _setup_render_prereqs
DrawingStyle ==
    [NewStyle EXCEPT !.auto_close = Bool(TRUE), !.paint_rule = Enum("AUTO"),
                     !.intersection_rule = Enum("NONZERO")]

\* the ambient styles the path is rendered under
AmbientStyles ==
    {DrawingStyle,
     [DrawingStyle EXCEPT !.fill_color = None, !.stroke_color = DeviceGray(0, None),
                          !.stroke_width = Num(Unit)]}

\* the assignments `path.style.<name> = <value>` the path specification draws from
PathStyleAssignments ==
    {<<"auto_close", Bool(FALSE)>>, <<"paint_rule", Enum("FILL_EVENODD")>>,
     <<"fill_color", DeviceRGB(Unit, 0, 0, None)>>}

PathInit ==
    /\ path = NewPaintedPath(0, 0)
    /\ calls = <<>>
    /\ pathOut = None

Building == pathOut = None /\ Len(calls) < MaxCalls

Call(name) == [name |-> name]

MoveTo ==
    /\ Building
    /\ \E pt \in PathPoints : path' = move_to(path, pt.x, pt.y)
    /\ calls' = Append(calls, Call("move_to"))
    /\ UNCHANGED <<pathOut, notPathVars>>

MoveRelative ==
    /\ Building
    /\ \E pt \in PathPoints : path' = move_relative(path, pt.x, pt.y)
    /\ calls' = Append(calls, Call("move_relative"))
    /\ UNCHANGED <<pathOut, notPathVars>>

LineTo ==
    /\ Building
    /\ \E pt \in PathPoints : path' = line_to(path, pt.x, pt.y)
    /\ calls' = Append(calls, Call("line_to"))
    /\ UNCHANGED <<pathOut, notPathVars>>

LineRelative ==
    /\ Building
    /\ path' = line_relative(path, Unit, 2 * Unit)
    /\ calls' = Append(calls, Call("line_relative"))
    /\ UNCHANGED <<pathOut, notPathVars>>

CurveTo ==
    /\ Building
    /\ path' = curve_to(path, Unit, 0, 2 * Unit, Unit, 3 * Unit, 3 * Unit)
    /\ calls' = Append(calls, Call("curve_to"))
    /\ UNCHANGED <<pathOut, notPathVars>>

AddRectangle ==
    /\ Building
    /\ path' = rectangle(path, Unit, 2 * Unit, 3 * Unit, 4 * Unit, 0, 0)
    /\ calls' = Append(calls, Call("rectangle"))
    /\ UNCHANGED <<pathOut, notPathVars>>

ClosePath ==
    /\ Building
    /\ path' = close(path)
    /\ calls' = Append(calls, Call("close"))
    /\ UNCHANGED <<pathOut, notPathVars>>

SetPathStyle ==
    /\ Building
    /\ \E a \in PathStyleAssignments :
          /\ SetAttr(path.root.style, a[1], a[2]).exc = "none"
          /\ path' = [path EXCEPT !.root.style = SetAttr(@, a[1], a[2]).obj]
    /\ calls' = Append(calls, Call("style"))
    /\ UNCHANGED <<pathOut, notPathVars>>

EnterTransformGroup ==
    /\ Building
    /\ Len(path.groups) < 1
    /\ path' = transform_group_enter(path, TransformTranslation(Unit, Unit))
    /\ calls' = Append(calls, Call("transform_group"))
    /\ UNCHANGED <<pathOut, notPathVars>>

ExitTransformGroup ==
    /\ pathOut = None
    /\ path.groups # <<>>
    /\ path' = transform_group_exit(path)
    /\ UNCHANGED <<calls, pathOut, notPathVars>>

\* path.render(registry, style, Move(0, 0), Point(0, 0)), insertion of the implicit
\* close included
RenderPath ==
    /\ pathOut = None
    /\ path.groups = <<>>
    /\ \E style \in AmbientStyles :
          pathOut' = [style |-> style,
                      ops |-> PaintedPathRender(path, style, Move(Point(0, 0)),
                                                Point(0, 0)).ops]
    /\ path' = InsertImplicitCloseIfOpen(path)
    /\ UNCHANGED <<calls, notPathVars>>

PathNext ==
    \/ MoveTo \/ MoveRelative \/ LineTo \/ LineRelative \/ CurveTo \/ AddRectangle
    \/ ClosePath \/ SetPathStyle \/ EnterTransformGroup \/ ExitTransformGroup
    \/ RenderPath

(***************************************************************************)
(* Clip specification: a ClippingPath and a PaintedPath are built, the        *)
(* first becomes the clipping path of the second, and one of them is rendered *)
(***************************************************************************)
MaxClipCalls == 4

\* the style a drawing hands down, with the document's dash defaults
ClipDrawingStyle ==
    [DrawingStyle EXCEPT !.stroke_dash_pattern = [t |-> "tuple", v |-> <<>>],
                         !.stroke_dash_phase = Num(0)]

\* the ambient styles of the clip specification
ClipAmbientStyles ==
    {ClipDrawingStyle,
     [ClipDrawingStyle EXCEPT !.paint_rule = Enum("STROKE"),
                              !.intersection_rule = Enum("EVENODD")]}

ClipTransforms == {TransformTranslation(Unit, Unit), TransformScaling(2, 2)}

\* the assignments `shape.style.<name> = <value>` the clip specification draws from
ShapeStyleAssignments ==
    {<<"fill_color", DeviceRGB(Unit, 0, 0, None)>>,
     <<"stroke_color", DeviceGray(0, None)>>,
     <<"stroke_dash_pattern", Num(Unit)>>}

ClipInit ==
    /\ clip = NewClippingPath(0, 0)
    /\ shape = NewPaintedPath(0, 0)
    /\ clipN = 0
    /\ clipOut = None

ClipBuilding == clipOut = None /\ clipN < MaxClipCalls

\* a call that changes the ClippingPath object: the PaintedPath it was assigned to
\* refers to the same object
ClipBecomes(c) ==
    /\ clip' = c
    /\ shape' = IF shape.root.clipping_path # None
                THEN [shape EXCEPT !.root.clipping_path = c] ELSE shape
    /\ clipN' = clipN + 1
    /\ UNCHANGED <<clipOut, notClipVars>>

ShapeBecomes(p) ==
    /\ shape' = p
    /\ clipN' = clipN + 1
    /\ UNCHANGED <<clip, clipOut, notClipVars>>

ClipLineTo == ClipBuilding /\ ClipBecomes(line_to(clip, 2 * Unit, 0))

ClipRectangle ==
    ClipBuilding /\ ClipBecomes(rectangle(clip, Unit, Unit, 8 * Unit, 8 * Unit, 0, 0))

\* clip.transform = tf
ClipSetTransform ==
    /\ ClipBuilding
    /\ \E tf \in ClipTransforms : ClipBecomes([clip EXCEPT !.root.transform = tf])

\* clip.style.intersection_rule = IntersectionRule.EVENODD
ClipSetIntersectionRule ==
    /\ ClipBuilding
    /\ ClipBecomes([clip EXCEPT !.root.style =
                        set_intersection_rule(@, Enum("EVENODD")).obj])

ShapeLineRelative == ClipBuilding /\ ShapeBecomes(line_relative(shape, Unit, 2 * Unit))

\* shape.transform = tf
ShapeSetTransform ==
    /\ ClipBuilding
    /\ ShapeBecomes([shape EXCEPT !.root.transform = TransformTranslation(3 * Unit, 0)])

ShapeSetStyle ==
    /\ ClipBuilding
    /\ \E a \in ShapeStyleAssignments :
          /\ SetAttr(shape.root.style, a[1], a[2]).exc = "none"
          /\ ShapeBecomes([shape EXCEPT !.root.style = SetAttr(@, a[1], a[2]).obj])

\* shape.clipping_path = clip
AssignClip ==
    /\ ClipBuilding
    /\ shape.root.clipping_path = None
    /\ ShapeBecomes([shape EXCEPT !.root.clipping_path = clip])

\* shape.render(registry, style, Move(0, 0), Point(0, 0))
RenderShape ==
    /\ clipOut = None
    /\ \E style \in ClipAmbientStyles :
          clipOut' = [of |-> "shape", style |-> style,
                      r |-> PaintedPathRender(shape, style, Move(Point(0, 0)), Point(0, 0))]
    /\ shape' = InsertImplicitCloseIfOpen(shape)
    /\ UNCHANGED <<clip, clipN, notClipVars>>

\* clip.render(registry, style, Move(0, 0), Point(0, 0))
RenderClip ==
    /\ clipOut = None
    /\ \E style \in ClipAmbientStyles \cup {NewStyle} :
          clipOut' = [of |-> "clip", style |-> style,
                      r |-> ClippingPathRender(clip, style, Move(Point(0, 0)), Point(0, 0))]
    /\ UNCHANGED <<clip, shape, clipN, notClipVars>>

ClipNext ==
    \/ ClipLineTo \/ ClipRectangle \/ ClipSetTransform \/ ClipSetIntersectionRule
    \/ ShapeLineRelative \/ ShapeSetTransform \/ ShapeSetStyle \/ AssignClip
    \/ RenderShape \/ RenderClip

(***************************************************************************)
(* Box specification: a tree of contexts is built from the inside out (a    *)
(* GraphicsContext is given rectangles and painted paths, styled and        *)
(* transformed, then added to a new GraphicsContext or PaintedPath, which   *)
(* is built on in turn), and its bounding box is taken                      *)
(***************************************************************************)
MaxBoxCalls == 4

BoxPoints == {Point(10 * Unit, 0), Point(4 * Unit, 6 * Unit)}

BoxTransforms == {TransformScaling(2, 1), TransformTranslation(5 * Unit, 0)}

\* the assignments `box.style.<name> = <value>` the box specification draws from
BoxStyleAssignments ==
    {<<"stroke_width", Num(4 * Unit)>>,
     <<"stroke_width", Num(0)>>,
     <<"stroke_opacity", Num(0)>>,
     <<"paint_rule", Enum("FILL_NONZERO")>>,
     <<"paint_rule", Enum("STROKE")>>}

\* the painted paths the box specification adds to a context: a line drawn with the
\* default style, and the same with a stroke width of 2
BoxPaths ==
    {line_to(NewPaintedPath(0, 0), 3 * Unit, 3 * Unit),
     [line_to(NewPaintedPath(0, 0), 3 * Unit, 3 * Unit) EXCEPT
         !.root.style = set_stroke_width(@, Num(2 * Unit)).obj]}

BoxInit ==
    /\ box = NewGraphicsContext
    /\ boxN = 0
    /\ boxOut = None

BoxBuilding == boxOut = None /\ boxN < MaxBoxCalls

BoxBecomes(b) ==
    /\ box' = b
    /\ boxN' = boxN + 1
    /\ UNCHANGED <<boxOut, notBoxVars>>

\* box.line_to(x, y) on a PaintedPath
BoxLineTo ==
    /\ BoxBuilding
    /\ box.cls = "PaintedPath"
    /\ \E pt \in BoxPoints : BoxBecomes(line_to(box, pt.x, pt.y))

\* box.add_item(Rectangle(org, size)) on a GraphicsContext
BoxAddRectangle ==
    /\ BoxBuilding
    /\ box.cls = "GraphicsContext"
    /\ BoxBecomes(GraphicsContextAddItem(box, Rectangle(Point(Unit, Unit),
                                                        Point(2 * Unit, 3 * Unit)), TRUE))

\* box.add_item(p) on a GraphicsContext, p being a PaintedPath
BoxAddPath ==
    /\ BoxBuilding
    /\ box.cls = "GraphicsContext"
    /\ \E p \in BoxPaths : BoxBecomes(GraphicsContextAddItem(box, p, TRUE))

\* box.style.<name> = <value>
BoxSetStyle ==
    /\ BoxBuilding
    /\ \E a \in BoxStyleAssignments :
          BoxBecomes(IF box.cls = "GraphicsContext"
                     THEN [box EXCEPT !.style = SetAttr(@, a[1], a[2]).obj]
                     ELSE [box EXCEPT !.root.style = SetAttr(@, a[1], a[2]).obj])

\* box.transform = tf
BoxSetTransform ==
    /\ BoxBuilding
    /\ \E tf \in BoxTransforms :
          BoxBecomes(IF box.cls = "GraphicsContext"
                     THEN [box EXCEPT !.transform = tf]
                     ELSE [box EXCEPT !.root.transform = tf])

\* gc = GraphicsContext(); gc.add_item(box); box = gc
BoxWrapInContext ==
    /\ BoxBuilding
    /\ BoxBecomes(GraphicsContextAddItem(NewGraphicsContext, box, TRUE))

\* p = PaintedPath(); p.add_path_element(box); box = p
BoxWrapInPath ==
    /\ BoxBuilding
    /\ box.cls = "GraphicsContext"
    /\ BoxBecomes(add_path_element(NewPaintedPath(0, 0), box, TRUE))

\* box.bounding_box(Point(0, 0))
BoxMeasure ==
    /\ boxOut = None
    /\ boxOut' = bounding_box(box, Point(0, 0))
    /\ UNCHANGED <<box, boxN, notBoxVars>>

BoxNext ==
    \/ BoxLineTo \/ BoxAddRectangle \/ BoxAddPath \/ BoxSetStyle \/ BoxSetTransform
    \/ BoxWrapInContext \/ BoxWrapInPath \/ BoxMeasure

(***************************************************************************)
(* Heap specification: the caller builds and changes one PaintedPath, adds  *)
(* it to a DrawingContext and to a GraphicsContext, with or without the     *)
(* copy, and the containers are rendered                                    *)
(***************************************************************************)
MaxHeapCalls == 4

\* the assignments `item.style.<name> = <value>` the heap specification draws from
HeapStyleAssignments ==
    {<<"paint_rule", Enum("STROKE")>>, <<"stroke_width", Num(4 * Unit)>>}

\* what a container sees in its list: its own objects, and the caller's object where
\* it holds a reference to it
Seen(items) == [i \in 1..Len(items) |-> Deref(items[i])]

\* the render of one held item under the drawing's style, from Move(0, 0)
HeldRender(item) ==
    RenderItem(Deref(item), ClipDrawingStyle, Move(Point(0, 0)), Point(0, 0))

\* the bounding box of one held item
HeldBox(item) == bounding_box(Deref(item), Point(0, 0))

HeapInit ==
    /\ callerItem = NewPaintedPath(0, 0)
    /\ subitems = <<>>
    /\ subitemsLog = <<>>
    /\ holder = NewGraphicsContext
    /\ holderLog = <<>>
    /\ heapN = 0
    /\ heapLast = None
    /\ heapRefused = 0

HeapCalling == heapN < MaxHeapCalls

\* a call that changes the caller's object and nothing else
CallerItemBecomes(p) ==
    /\ callerItem' = p
    /\ heapN' = heapN + 1
    /\ heapLast' = None
    /\ UNCHANGED <<subitems, subitemsLog, holder, holderLog, heapRefused, notHeapVars>>

\* item.line_to(2, 1)
CallerLineTo == HeapCalling /\ CallerItemBecomes(line_to(callerItem, 2 * Unit, Unit))

\* item.style.<name> = <value>
CallerSetStyle ==
    /\ HeapCalling
    /\ \E a \in HeapStyleAssignments :
          CallerItemBecomes([callerItem EXCEPT !.root.style = SetAttr(@, a[1], a[2]).obj])

\* item.transform = Transform.scaling(2, 2)
CallerSetTransform ==
    /\ HeapCalling
    /\ CallerItemBecomes([callerItem EXCEPT !.root.transform = TransformScaling(2, 2)])

\* item.clipping_path = a ClippingPath holding a rectangle
CallerSetClippingPath ==
    /\ HeapCalling
    /\ CallerItemBecomes([callerItem EXCEPT !.root.clipping_path =
                             rectangle(NewClippingPath(0, 0), 0, 0, Unit, Unit, 0, 0)])

\* entering `with item.transform_group(Transform.translation(1, 0))`
CallerEnterGroup ==
    /\ HeapCalling
    /\ callerItem.groups = <<>>
    /\ CallerItemBecomes(transform_group_enter(callerItem, TransformTranslation(Unit, 0)))

\* leaving the with block
CallerExitGroup ==
    /\ HeapCalling
    /\ callerItem.groups # <<>>
    /\ CallerItemBecomes(transform_group_exit(callerItem))

\* the call just made on the caller's object: its name, whether it copies, what it
\* raised, and the item list of the container before it
CallMade(name, _copy, before) ==
    [call |-> name, copy |-> _copy, before |-> before,
     exc |-> IF _copy THEN deepcopy(CallerRef).exc ELSE "none"]

\* whether the call raised; the count of refused calls goes up when it did
Refused(made) ==
    /\ made.exc # "none"
    /\ heapRefused' = heapRefused + 1

Accepted(made) ==
    /\ made.exc = "none"
    /\ heapRefused' = heapRefused

\* copy.deepcopy(item)
CallerDeepcopy ==
    /\ HeapCalling
    /\ heapLast' = CallMade("deepcopy", TRUE, <<>>)
    /\ Refused(heapLast') \/ Accepted(heapLast')
    /\ heapN' = heapN + 1
    /\ UNCHANGED <<callerItem, subitems, subitemsLog, holder, holderLog, notHeapVars>>

\* drawing_context.add_item(item, _copy): the deepcopy of a path that is inside a
\* transform_group raises RuntimeError, and nothing is added
AddToDrawingContext ==
    /\ HeapCalling
    /\ \E _copy \in BOOLEAN :
          /\ heapLast' = CallMade("DrawingContext.add_item", _copy, subitems)
          /\ \/ /\ Refused(heapLast')
                /\ UNCHANGED <<subitems, subitemsLog>>
             \/ /\ Accepted(heapLast')
                /\ subitems' = DrawingContextAddItem(subitems, CallerRef, _copy)
                /\ subitemsLog' = Append(subitemsLog,
                                         [copy |-> _copy,
                                          rendered |-> HeldRender(subitems'[Len(subitems')])])
    /\ heapN' = heapN + 1
    /\ UNCHANGED <<callerItem, holder, holderLog, notHeapVars>>

\* holder.add_item(item, _copy)
AddToGraphicsContext ==
    /\ HeapCalling
    /\ \E _copy \in BOOLEAN :
          /\ heapLast' = CallMade("GraphicsContext.add_item", _copy, holder.path_items)
          /\ \/ /\ Refused(heapLast')
                /\ UNCHANGED <<holder, holderLog>>
             \/ /\ Accepted(heapLast')
                /\ holder' = GraphicsContextAddItem(holder, CallerRef, _copy)
                /\ holderLog' =
                      Append(holderLog,
                             [copy |-> _copy,
                              rendered |-> HeldRender(holder'.path_items[Len(holderLog) + 1]),
                              measured |-> HeldBox(holder'.path_items[Len(holderLog) + 1])])
    /\ heapN' = heapN + 1
    /\ UNCHANGED <<callerItem, subitems, subitemsLog, notHeapVars>>

\* what the render of a container leaves of a held item: a PaintedPath has had
\* _insert_implicit_close_if_open called on it
AfterRender(item) ==
    IF item # CallerRef /\ item.cls = "PaintedPath" THEN InsertImplicitCloseIfOpen(item)
    ELSE item

\* drawing_context.render(...): every subitem is rendered, the caller's object too
\* where the context holds it
RenderDrawingContext ==
    /\ subitems # <<>>
    /\ subitems' = [i \in 1..Len(subitems) |-> AfterRender(subitems[i])]
    /\ callerItem' = IF \E i \in 1..Len(subitems) : subitems[i] = CallerRef
                     THEN InsertImplicitCloseIfOpen(callerItem) ELSE callerItem
    /\ heapLast' = None
    /\ UNCHANGED <<subitemsLog, holder, holderLog, heapN, heapRefused, notHeapVars>>

\* holder.render(...)
RenderGraphicsContext ==
    /\ holder.path_items # <<>>
    /\ holder' = [holder EXCEPT !.path_items =
                     [i \in 1..Len(@) |-> AfterRender(@[i])]]
    /\ callerItem' = IF \E i \in 1..Len(holder.path_items) : holder.path_items[i] = CallerRef
                     THEN InsertImplicitCloseIfOpen(callerItem) ELSE callerItem
    /\ heapLast' = None
    /\ UNCHANGED <<subitems, subitemsLog, holderLog, heapN, heapRefused, notHeapVars>>

HeapNext ==
    \/ CallerLineTo \/ CallerSetStyle \/ CallerSetTransform \/ CallerSetClippingPath
    \/ CallerEnterGroup \/ CallerExitGroup
    \/ CallerDeepcopy \/ AddToDrawingContext \/ AddToGraphicsContext
    \/ RenderDrawingContext \/ RenderGraphicsContext

(***************************************************************************)
(* Num specification: number_to_str is applied to two numbers, each a       *)
(* count of 1/Unit around zero or around a whole number                     *)
(***************************************************************************)
MaxTiny == 12

NumberInputs ==
    (-MaxTiny..MaxTiny)
    \cup {Unit + n : n \in -6..6} \cup {-Unit + n : n \in -6..6}
    \cup {12345 * 10 + 5, -(12345 * 10 + 5), 100 * Unit, 105000}

NumInit ==
    /\ numA = 0
    /\ numB = 0
    /\ numOut = None

\* number_to_str(a) and number_to_str(b)
NumberToStr ==
    /\ numOut = None
    /\ \E a, b \in NumberInputs :
          /\ numA' = a
          /\ numB' = b
          /\ numOut' = [a |-> number_to_str(a), b |-> number_to_str(b)]
    /\ UNCHANGED notNumVars

NumNext == NumberToStr

(***************************************************************************)
(* BoxMerge specification: two bounding boxes, each the empty sentinel or  *)
(* a box with x0 <= x1 and y0 <= y1, are merged both ways and with the     *)
(* empty sentinel, and the results are compared with ==                    *)
(***************************************************************************)
MaxBoxCoord == 2

MergeCoords == {c * Unit : c \in 0..MaxBoxCoord}

MergeBoxes ==
    {BoundingBoxEmpty}
    \cup {BoundingBox(x0, y0, x1, y1) :
             x0 \in MergeCoords, y0 \in MergeCoords,
             x1 \in MergeCoords, y1 \in MergeCoords}

BoxMergeInit ==
    /\ mergeA = BoundingBoxEmpty
    /\ mergeB = BoundingBoxEmpty
    /\ mergeOut = None

\* A.merge(B) == B.merge(A) and A.merge(BoundingBox.empty()) == A
MergeBothWays ==
    /\ mergeOut = None
    /\ \E A, B \in {b \in MergeBoxes : b.empty \/ is_valid(b)} :
          /\ mergeA' = A
          /\ mergeB' = B
          /\ mergeOut' =
                [ab |-> BoundingBoxMerge(A, B),
                 ba |-> BoundingBoxMerge(B, A),
                 ae |-> BoundingBoxMerge(A, BoundingBoxEmpty),
                 commutes |-> BoundingBoxEq(BoundingBoxMerge(A, B),
                                            BoundingBoxMerge(B, A)),
                 identity |-> BoundingBoxEq(BoundingBoxMerge(A, BoundingBoxEmpty), A)]
    /\ UNCHANGED notBoxMergeVars

BoxMergeNext == MergeBothWays

(***************************************************************************)
(* Assoc specification: three styles are built, each from a fresh style or  *)
(* from one with every property assigned, by attribute assignment; then     *)
(* they are merged in both groupings                                        *)
(***************************************************************************)
MaxAssocSets == 2

\* one concrete value for every property
AssocDefaults ==
    <<<<"paint_rule", Enum("AUTO")>>, <<"allow_transparency", Bool(TRUE)>>,
      <<"auto_close", Bool(TRUE)>>, <<"intersection_rule", Enum("NONZERO")>>,
      <<"fill_color", DeviceRGB(0, 0, Unit, None)>>, <<"fill_opacity", Num(Unit)>>,
      <<"stroke_color", DeviceGray(Unit, None)>>, <<"stroke_opacity", Num(Unit)>>,
      <<"blend_mode", Enum("NORMAL")>>, <<"stroke_width", Num(3 * Unit)>>,
      <<"stroke_cap_style", Enum("BUTT")>>, <<"stroke_join_style", Enum("MITER")>>,
      <<"stroke_miter_limit", Num(10 * Unit)>>, <<"stroke_dash_pattern", None>>,
      <<"stroke_dash_phase", Num(0)>>,
      <<"soft_mask", [t |-> "PaintSoftMask", v |-> "mask"]>>>>

RECURSIVE AssignAll(_, _, _)
\* for name, value in assignments[i:]: setattr(s, name, value)
AssignAll(s, assignments, i) ==
    IF i > Len(assignments) THEN s
    ELSE AssignAll(SetAttr(s, assignments[i][1], assignments[i][2]).obj, assignments, i + 1)

\* the assignments `style.<name> = <value>` the specification draws from
AssocAssignments ==
    {<<"fill_color", DeviceRGB(Unit, 0, 0, Num(Unit \div 2))>>, <<"fill_color", None>>,
     <<"stroke_color", DeviceGray(0, None)>>, <<"stroke_color", None>>,
     <<"stroke_color", DeviceGray(0, Num(Unit \div 4))>>,
     <<"stroke_width", INHERIT>>, <<"stroke_width", None>>,
     <<"fill_opacity", Num(3 * (Unit \div 10))>>, <<"stroke_opacity", INHERIT>>,
     <<"paint_rule", None>>}

AssocNames == {"A", "B", "C"}

AssocInit ==
    /\ assocStyles = [n \in AssocNames |-> NewStyle]
    /\ assocN = 0
    /\ assocOut = None

\* every property of one of the styles is assigned a value
AssocAssignAll ==
    /\ assocOut = None
    /\ assocN = 0
    /\ \E n \in AssocNames :
          /\ assocStyles[n] = NewStyle
          /\ assocStyles' = [assocStyles EXCEPT ![n] = AssignAll(@, AssocDefaults, 1)]
    /\ UNCHANGED <<assocN, assocOut, notAssocVars>>

\* style.<name> = <value> on one of the styles
AssocSet ==
    /\ assocOut = None
    /\ assocN < MaxAssocSets
    /\ \E n \in AssocNames, a \in AssocAssignments :
          /\ SetAttr(assocStyles[n], a[1], a[2]).exc = "none"
          /\ assocStyles' = [assocStyles EXCEPT ![n] = SetAttr(@, a[1], a[2]).obj]
    /\ assocN' = assocN + 1
    /\ UNCHANGED <<assocOut, notAssocVars>>

\* GraphicsStyle.merge(GraphicsStyle.merge(A, B), C) and
\* GraphicsStyle.merge(A, GraphicsStyle.merge(B, C))
AssocMerge ==
    /\ assocOut = None
    /\ assocOut' = [left  |-> Merge(Merge(assocStyles.A, assocStyles.B), assocStyles.C),
                    right |-> Merge(assocStyles.A, Merge(assocStyles.B, assocStyles.C))]
    /\ UNCHANGED <<assocStyles, assocN, notAssocVars>>

AssocNext == AssocAssignAll \/ AssocSet \/ AssocMerge

(***************************************************************************)
(* Inv specification: a transform is inverted and a point is taken through  *)
(* the transform and its inverse                                            *)
(***************************************************************************)
MaxEntry == 2

InvEntries == -1..MaxEntry

InvTransforms ==
    {Transform(a, b, c, d, e, f) :
        a \in InvEntries, b \in InvEntries, c \in InvEntries, d \in InvEntries,
        e \in {0, 3 * Unit}, f \in {0, -Unit}}

InvPoints == {Point(0, 0), Point(Unit, 0), Point(-(Unit \div 2), 2 * Unit)}

InvInit ==
    /\ invT = TransformIdentity
    /\ invP = Point(0, 0)
    /\ invOut = None

\* T.inverse() and P @ T @ T.inverse()
InvertAndReturn ==
    /\ invOut = None
    /\ \E tf \in InvTransforms, p \in InvPoints :
          /\ invT' = tf
          /\ invP' = p
          /\ invOut' = [inv |-> TransformInverse(tf),
                        back |-> RoundTrip(p, tf, TransformInverse(tf))]
    /\ UNCHANGED notInvVars

InvNext == InvertAndReturn

(***************************************************************************)
(* Grad specification: a list of stops is put together one stop at a time,  *)
(* in any order and with any of the offsets below, then handed to           *)
(* shape_linear_gradient or to shape_radial_gradient.                       *)
(***************************************************************************)
MaxStops == 3

\* offsets below 0, at the ends, inside, and above 1
StopOffsets == {-(Unit \div 2), 0, Unit \div 4, Unit \div 2, Unit, 2 * Unit}

\* two chromatic colours and a gray
StopColorChoices ==
    {DeviceRGB(Unit, 0, 0, None), DeviceRGB(0, 0, Unit, None), DeviceGray(Unit \div 2, None)}

\* radii of the radial gradient: negative, zero, positive
Radii == {-Unit, 0, Unit}

GradInit ==
    /\ gradStops = <<>>
    /\ gradOut = None

\* the caller appends a stop to the list it is going to pass
AddStop ==
    /\ Len(gradStops) < MaxStops
    /\ \E off \in StopOffsets, color \in StopColorChoices :
          gradStops' = Append(gradStops, GradientStop(off, color))
    /\ gradOut' = None
    /\ UNCHANGED notGradVars

ShapeLinear ==
    /\ gradOut = None
    /\ gradOut' = [fn |-> "shape_linear_gradient", r |-> None,
                   res |-> shape_linear_gradient(gradStops)]
    /\ UNCHANGED <<gradStops, notGradVars>>

ShapeRadial ==
    /\ gradOut = None
    /\ \E r \in Radii :
          gradOut' = [fn |-> "shape_radial_gradient", r |-> Num(r),
                      res |-> shape_radial_gradient(r, gradStops)]
    /\ UNCHANGED <<gradStops, notGradVars>>

GradNext == AddStop \/ ShapeLinear \/ ShapeRadial

(***************************************************************************)
(* Pal specification: a list of colours is put together one colour at a     *)
(* time (Device* instances with and without alpha, and 8-bit tuples), then  *)
(* a Gradient is constructed from it with the default bounds.               *)
(***************************************************************************)
MaxColors == 3

PaletteChoices ==
    {DeviceGray(0, None), DeviceGray(Unit \div 2, Num(Unit \div 2)),
     DeviceRGB(Unit, 0, 0, None), DeviceRGB(Unit \div 2, Unit \div 2, Unit \div 2, None),
     DeviceRGB(Unit, Unit, Unit, Num(Unit \div 4)),
     DeviceCMYK(0, 0, 0, Unit, None), DeviceCMYK(Unit, 0, 0, 0, Num(Unit)),
     ColorTuple(0, 0, 0), ColorTuple(255, 255, 255), ColorTuple(0, 255, 0)}

PalInit ==
    /\ palColors = <<>>
    /\ palOut = None

\* the caller appends a colour to the list it is going to pass
AddColor ==
    /\ Len(palColors) < MaxColors
    /\ \E c \in PaletteChoices : palColors' = Append(palColors, c)
    /\ palOut' = None
    /\ UNCHANGED notPalVars

\* Gradient(colors, background=None, extend_before=False, extend_after=False,
\* bounds=None), through a subclass
ConstructGradient ==
    /\ palOut = None
    /\ palOut' = NewGradient(palColors, <<>>, FALSE, FALSE)
    /\ UNCHANGED <<palColors, notPalVars>>

PalNext == AddColor \/ ConstructGradient

(***************************************************************************)
(* Comp specification: a backdrop and a source path are drawn (lines, a     *)
(* fill colour), then a PaintComposite of the two is rendered in one of     *)
(* the ten modes, after some last item and start point.                     *)
(***************************************************************************)
MaxCompCalls == 2

CompPoints == {Point(Unit, 0), Point(0, 2 * Unit)}

\* the builder calls made on an operand so far
OperandCalls(p) == Len(p.root.path_items)

\* the last item and start point the composite is rendered after
CompStarts ==
    {<<Move(Point(0, 0)), Point(0, 0)>>, <<Line(Point(Unit, Unit)), Point(Unit, 0)>>}

CompInit ==
    /\ compBackdrop = NewPaintedPath(0, 0)
    /\ compSource = NewPaintedPath(Unit, Unit)
    /\ compOut = None

BackdropLineTo ==
    /\ compOut = None
    /\ OperandCalls(compBackdrop) <= MaxCompCalls
    /\ \E pt \in CompPoints : compBackdrop' = line_to(compBackdrop, pt.x, pt.y)
    /\ UNCHANGED <<compSource, compOut, notCompVars>>

SourceLineTo ==
    /\ compOut = None
    /\ OperandCalls(compSource) <= MaxCompCalls
    /\ \E pt \in CompPoints : compSource' = line_to(compSource, pt.x, pt.y)
    /\ UNCHANGED <<compBackdrop, compOut, notCompVars>>

\* source.style.fill_color = <red>
SourceSetFillColor ==
    /\ compOut = None
    /\ compSource.root.style.fill_color = INHERIT
    /\ compSource' = [compSource EXCEPT
                         !.root.style = set_fill_color(@, DeviceRGB(Unit, 0, 0, None)).obj]
    /\ UNCHANGED <<compBackdrop, compOut, notCompVars>>

\* PaintComposite(backdrop, source, mode).render(registry, style, last_item,
\* initial_point)
RenderComposite ==
    /\ compOut = None
    /\ \E mode \in CompositingOperations, start \in CompStarts :
          /\ compOut' = [mode |-> mode, backdrop |-> compBackdrop, source |-> compSource,
                         last_item |-> start[1], initial_point |-> start[2],
                         res |-> PaintCompositeRender(
                                     NewPaintComposite(compBackdrop, compSource, mode),
                                     DrawingStyle, start[1], start[2])]
          /\ compBackdrop' = OperandAfterRender(
                                 NewPaintComposite(compBackdrop, compSource, mode),
                                 "backdrop")
          /\ compSource' = OperandAfterRender(
                               NewPaintComposite(compBackdrop, compSource, mode),
                               "source")
    /\ UNCHANGED notCompVars

CompNext == BackdropLineTo \/ SourceLineTo \/ SourceSetFillColor \/ RenderComposite

(***************************************************************************)
(* Asg specification: attributes of one GraphicsStyle are assigned, valid   *)
(* values and invalid ones; an assignment that raises leaves the style as   *)
(* the setter left it.                                                      *)
(***************************************************************************)
MaxAssigns == 2

\* assignments the setters accept
ValidAssignments ==
    {<<"fill_color", DeviceRGB(0, 0, Unit, Num(Unit \div 2))>>,
     <<"fill_color", Str("#ff0000")>>,
     <<"stroke_color", DeviceGray(0, Num(Unit \div 4))>>,
     <<"stroke_width", Num(3 * Unit)>>,
     <<"fill_opacity", Num(Unit)>>,
     <<"paint_rule", Enum("STROKE")>>,
     <<"auto_close", Bool(FALSE)>>}

\* the assignments of the test table invalid_styles (the list with a string among
\* numbers left out), and one more per remaining validated property
RefusedByType ==
    {<<"auto_close", Num(2 * Unit)>>,
     <<"paint_rule", Num(123 * Unit)>>, <<"paint_rule", Str("asdasd")>>,
     <<"intersection_rule", Num(123 * Unit)>>, <<"intersection_rule", Str("asdasd")>>,
     <<"fill_color", Str("123")>>, <<"fill_color", Num(2 * Unit)>>,
     <<"fill_opacity", Str("123123")>>, <<"fill_opacity", Num(2 * Unit)>>,
     <<"stroke_color", [t |-> "list", v |-> <<2>>]>>,
     <<"stroke_dash_pattern", Str("123")>>,
     <<"stroke_dash_phase", Str("123")>>,
     <<"stroke_miter_limit", Str("123")>>,
     <<"stroke_width", [t |-> "list", v |-> <<2>>]>>,
     <<"invalid_style_name", Num(2 * Unit)>>,
     <<"stroke_opacity", Num(-Unit)>>,
     <<"blend_mode", Str("asdasd")>>,
     <<"stroke_cap_style", Num(7 * Unit)>>,
     <<"stroke_join_style", Str("asdasd")>>,
     <<"soft_mask", Num(Unit)>>}

\* colours whose alpha is outside [0, 1]: the constructors refuse such an alpha, the
\* NamedTuple methods _replace and _make do not (DeviceRGB(1, 0, 0)._replace(a=2))
ColorsWithAlphaOutOfRange ==
    {DeviceRGB(Unit, 0, 0, Num(2 * Unit)), DeviceGray(0, Num(2 * Unit))}

InvalidAssignments ==
    RefusedByType
    \cup {<<"fill_color", c>> : c \in ColorsWithAlphaOutOfRange}
    \cup {<<"stroke_color", c>> : c \in ColorsWithAlphaOutOfRange}

AsgInit ==
    /\ asgStyle = NewStyle
    /\ asgN = 0
    /\ asgOut = None

\* setattr(style, name, value): the style is what the setter made of it, whether it
\* returned or raised
Assigned(name, value) ==
    /\ asgN < MaxAssigns
    /\ asgN' = asgN + 1
    /\ asgStyle' = SetAttr(asgStyle, name, value).obj
    /\ asgOut' = [name |-> name, value |-> value, before |-> asgStyle,
                  exc |-> SetAttr(asgStyle, name, value).exc]
    /\ UNCHANGED notAsgVars

AssignValid == \E a \in ValidAssignments : Assigned(a[1], a[2])

AssignInvalid == \E a \in InvalidAssignments : Assigned(a[1], a[2])

AsgNext == AssignValid \/ AssignInvalid

(***************************************************************************)
(* Degen specification: a shape is chosen, an enclosing box is chosen, and *)
(* the shape is measured and merged into the enclosing box.                *)
(***************************************************************************)

MaxExtent == 2

Extents == -1 .. MaxExtent

DegenOrigins == {Point(x, y) : x \in {0, 3}, y \in {0, 3}}

DegenShapes ==
    {Rectangle(org, Point(w, h)) : org \in DegenOrigins, w \in Extents, h \in Extents}
    \cup {RoundedRectangle(org, Point(w, h), Point(0, 0)) :
            org \in DegenOrigins, w \in Extents, h \in Extents}
    \cup {Ellipse(Point(rx, ry), c) : rx \in Extents, ry \in Extents, c \in DegenOrigins}

EnclosingBoxes ==
    {BoundingBoxEmpty, BoundingBox(1, 1, 2, 2), BoundingBox(-2, -2, 6, 6)}

DegenInit ==
    /\ degShape = Rectangle(Point(0, 0), Point(1, 1))
    /\ degEnclosing = BoundingBoxEmpty
    /\ degOut = None

ChooseShape ==
    /\ \E el \in DegenShapes : degShape' = el
    /\ degOut' = None
    /\ UNCHANGED <<degEnclosing, notDegenVars>>

ChooseEnclosing ==
    /\ \E b \in EnclosingBoxes : degEnclosing' = b
    /\ degOut' = None
    /\ UNCHANGED <<degShape, notDegenVars>>

\* enclosing.merge(shape.bounding_box(start)[0])
MeasureShape ==
    /\ degOut = None
    /\ \E start \in DegenOrigins :
          degOut' = [el |-> degShape,
                     enclosing |-> degEnclosing,
                     measured |-> ShapeBoundingBox(degShape, start),
                     merged |-> BoundingBoxMerge(degEnclosing,
                                                 ShapeBoundingBox(degShape, start).bbox)]
    /\ UNCHANGED <<degShape, degEnclosing, notDegenVars>>

DegenNext == ChooseShape \/ ChooseEnclosing \/ MeasureShape

(***************************************************************************)
(* Bez specification: the start point and the three points of a cubic      *)
(* Bezier curve are set one at a time, and the curve is measured.          *)
(***************************************************************************)

MaxCurveCoord == 2

CurvePoints == {Point(x, y) : x \in -1 .. MaxCurveCoord, y \in {0, MaxCurveCoord}}

BezInit ==
    /\ bezStart = Point(0, 0)
    /\ bezCurve = BezierCurve(Point(0, 0), Point(0, 0), Point(0, 0))
    /\ bezOut = None

SetBezStart ==
    /\ \E p \in CurvePoints : bezStart' = p
    /\ bezOut' = None
    /\ UNCHANGED <<bezCurve, notBezVars>>

SetBezC1 ==
    /\ \E p \in CurvePoints : bezCurve' = BezierCurve(p, bezCurve.c2, bezCurve.end)
    /\ bezOut' = None
    /\ UNCHANGED <<bezStart, notBezVars>>

SetBezC2 ==
    /\ \E p \in CurvePoints : bezCurve' = BezierCurve(bezCurve.c1, p, bezCurve.end)
    /\ bezOut' = None
    /\ UNCHANGED <<bezStart, notBezVars>>

SetBezEnd ==
    /\ \E p \in CurvePoints : bezCurve' = BezierCurve(bezCurve.c1, bezCurve.c2, p)
    /\ bezOut' = None
    /\ UNCHANGED <<bezStart, notBezVars>>

\* curve.bounding_box(start)
MeasureCurve ==
    /\ bezOut = None
    /\ bezOut' = [start |-> bezStart, curve |-> bezCurve,
                  measured |-> BezierCurveBoundingBox(bezCurve, bezStart)]
    /\ UNCHANGED <<bezStart, bezCurve, notBezVars>>

BezNext == SetBezStart \/ SetBezC1 \/ SetBezC2 \/ SetBezEnd \/ MeasureCurve

(***************************************************************************)
(* Ctx specification: an ambient style, an outer GraphicsContext that      *)
(* holds a rectangle and an inner GraphicsContext, which holds a rectangle *)
(* of its own.  Properties are assigned to the three styles, the inner     *)
(* context may be given a transform, and the outer context is rendered.    *)
(***************************************************************************)

MaxCtxSets == 2

CtxLevels == {"ambient", "outer", "inner"}

CtxSettings ==
    {<<"stroke_width", Num(Unit)>>,
     <<"stroke_width", Num(2 * Unit)>>,
     <<"fill_color", DeviceRGB(Unit, 0, 0, None)>>,
     <<"fill_color", None>>,
     <<"stroke_color", DeviceGray(0, None)>>,
     <<"fill_opacity", Num(Unit \div 2)>>,
     <<"allow_transparency", Bool(FALSE)>>,
     <<"stroke_dash_pattern", [t |-> "tuple", v |-> <<Unit>>]>>}

\* the outer context with the inner one as the last of its items
CtxTree(outer_style, inner_style, inner_transform) ==
    [NewGraphicsContext EXCEPT
        !.style = outer_style,
        !.path_items =
            <<Rectangle(Point(0, 0), Point(Unit, Unit)),
              [NewGraphicsContext EXCEPT
                  !.style = inner_style,
                  !.transform = inner_transform,
                  !.path_items = <<Rectangle(Point(Unit, Unit), Point(Unit, Unit))>>]>>]

\* the style the drawing context hands down: what _setup_render_prereqs sets, and the
\* dash settings of the document, which build_render_list relies on being serializable
CtxAmbientStyle ==
    [DrawingStyle EXCEPT !.stroke_dash_pattern = [t |-> "tuple", v |-> <<>>],
                         !.stroke_dash_phase = Num(0)]

CtxInit ==
    /\ ctxStyles = [l \in CtxLevels |-> IF l = "ambient" THEN CtxAmbientStyle ELSE NewStyle]
    /\ ctxTransform = None
    /\ ctxN = 0
    /\ ctxOut = None

\* setattr(style, name, value) on the style of one level
CtxSet ==
    /\ ctxN < MaxCtxSets
    /\ \E l \in CtxLevels, a \in CtxSettings :
          ctxStyles' = [ctxStyles EXCEPT ![l] = SetAttr(@, a[1], a[2]).obj]
    /\ ctxN' = ctxN + 1
    /\ ctxOut' = None
    /\ UNCHANGED <<ctxTransform, notCtxVars>>

\* inner.transform = Transform.translation(1, 0), or None again
CtxToggleTransform ==
    /\ ctxTransform' = IF ctxTransform = None THEN Transform(1, 0, 0, 1, Unit, 0) ELSE None
    /\ ctxOut' = None
    /\ UNCHANGED <<ctxStyles, ctxN, notCtxVars>>

\* outer.render(registry, ambient, Move(Point(0, 0)), Point(0, 0))
CtxRender ==
    /\ ctxOut = None
    /\ ctxOut' = [styles |-> ctxStyles,
                  transform |-> ctxTransform,
                  ops |-> GraphicsContextRender(
                              CtxTree(ctxStyles["outer"], ctxStyles["inner"], ctxTransform),
                              ctxStyles["ambient"], Move(Point(0, 0)), Point(0, 0)).ops]
    /\ UNCHANGED <<ctxStyles, ctxTransform, ctxN, notCtxVars>>

CtxNext == CtxSet \/ CtxToggleTransform \/ CtxRender

(***************************************************************************)
(* Empty specification: items, most of them without any path element, are  *)
(* added to a DrawingContext, which is rendered.                           *)
(***************************************************************************)

MaxEmptyItems == 3

\* a GraphicsContext that holds the items given
ContextHolding(items) == [NewGraphicsContext EXCEPT !.path_items = items]

\* items that hold no path element, and a path that holds a rectangle
EmptyItems ==
    {NewGraphicsContext, NewPaintedPath(0, 0), NewClippingPath(0, 0),
     ContextHolding(<<NewGraphicsContext>>), ContextHolding(<<NewPaintedPath(0, 0)>>)}

FilledItems ==
    {[NewPaintedPath(0, 0) EXCEPT
        !.root.path_items = <<Rectangle(Point(0, 0), Point(Unit, Unit))>>]}

\* the document's style: see CtxAmbientStyle
EmptyStartingStyles ==
    {[NewStyle EXCEPT !.stroke_dash_pattern = [t |-> "tuple", v |-> <<>>],
                      !.stroke_dash_phase = Num(0)],
     [NewStyle EXCEPT !.stroke_dash_pattern = [t |-> "tuple", v |-> <<>>],
                      !.stroke_dash_phase = Num(0),
                      !.stroke_width = Num(Unit)]}

EmptyInit ==
    /\ emSubitems = <<>>
    /\ emOut = None

\* drawing.add_item(item)
EmAddItem ==
    /\ Len(emSubitems) < MaxEmptyItems
    /\ \E item \in EmptyItems \cup FilledItems :
          emSubitems' = DrawingContextAddItem(emSubitems, item, TRUE)
    /\ emOut' = None
    /\ UNCHANGED notEmptyVars

\* drawing.render(registry, Point(0, 0), 1, 2, starting_style), and the render of each
\* sub-item under the style the drawing context hands down
EmRender ==
    /\ emOut = None
    /\ \E starting_style \in EmptyStartingStyles :
          emOut' = [subitems |-> emSubitems,
                    text |-> DrawingContextRender(emSubitems, Point(0, 0), 1, 2 * Unit,
                                                  starting_style),
                    each |-> [i \in 1..Len(emSubitems) |->
                                 RenderItem(emSubitems[i], SetupRenderStyle(starting_style),
                                            Move(Point(0, 0)), Point(0, 0)).ops]]
    /\ UNCHANGED <<emSubitems, notEmptyVars>>

EmptyNext == EmAddItem \/ EmRender

(***************************************************************************)
(* Agree specification: path elements are added to a GraphicsContext,      *)
(* which is then measured and rendered from the same start point.          *)
(***************************************************************************)

MaxAgreeElems == 3

AgreePoints == {Point(Unit, 2 * Unit), Point(3 * Unit, Unit)}

AgreeElements ==
    {Move(p) : p \in AgreePoints} \cup {Line(p) : p \in AgreePoints}
    \cup {RelativeMove(Point(Unit, Unit)), RelativeLine(Point(-Unit, 2 * Unit)),
          Rectangle(Point(Unit, Unit), Point(Unit, Unit)), Close, ImplicitClose}

AgreeInit ==
    /\ agSeq = <<>>
    /\ agOut = None

\* ctx.add_item(el)
AgAddItem ==
    /\ Len(agSeq) < MaxAgreeElems
    /\ \E el \in AgreeElements : agSeq' = Append(agSeq, el)
    /\ agOut' = None
    /\ UNCHANGED notAgreeVars

\* ctx.bounding_box(start, style, expand_for_stroke=False) and
\* ctx.render(registry, style, Move(start), start), for the context as it is and as it
\* was after each of its items was added
AgMeasureAndRender ==
    /\ agOut = None
    /\ agSeq # <<>>
    /\ agOut' = [seq |-> agSeq,
                 measured |-> [k \in 1..Len(agSeq) |->
                                  GraphicsContextBoundingBox(
                                      ContextHolding(SubSeq(agSeq, 1, k)), Point(0, 0),
                                      CtxAmbientStyle, FALSE)],
                 rendered |-> [k \in 1..Len(agSeq) |->
                                  GraphicsContextRender(
                                      ContextHolding(SubSeq(agSeq, 1, k)), CtxAmbientStyle,
                                      Move(Point(0, 0)), Point(0, 0))]]
    /\ UNCHANGED <<agSeq, notAgreeVars>>

AgreeNext == AgAddItem \/ AgMeasureAndRender

(***************************************************************************)
(* Bal specification: contexts, paths, clipped paths and composites are    *)
(* added to a DrawingContext, which is rendered.                           *)
(***************************************************************************)

MaxBalItems == 2

\* a PaintedPath that holds a rectangle
BalPath(x) ==
    [NewPaintedPath(0, 0) EXCEPT
        !.root.path_items = <<Rectangle(Point(x, 0), Point(Unit, Unit))>>]

\* a ClippingPath that holds a rectangle
BalClip ==
    [NewClippingPath(0, 0) EXCEPT
        !.root.path_items = <<Rectangle(Point(0, 0), Point(2 * Unit, 2 * Unit))>>]

\* a PaintedPath that holds a line drawn inside a transform group
BalGroupPath ==
    transform_group_exit(
        line_to(transform_group_enter(NewPaintedPath(0, 0), Transform(1, 0, 0, 1, Unit, 0)),
                Unit, Unit))

BalItems ==
    {NewGraphicsContext,
     NewPaintedPath(0, 0),
     BalPath(0),
     [BalPath(0) EXCEPT !.root.clipping_path = BalClip],
     [BalPath(0) EXCEPT !.root.clipping_path = NewClippingPath(0, 0)],
     BalGroupPath,
     ContextHolding(<<BalPath(Unit),
                      [ContextHolding(<<BalPath(0)>>) EXCEPT
                          !.transform = Transform(1, 0, 0, 1, Unit, 0),
                          !.clipping_path = BalClip]>>)}
    \cup {NewPaintComposite(BalPath(0), BalPath(Unit), operation) :
            operation \in {"SOURCE_OVER", "SOURCE_IN", "XOR", "CLEAR"}}

BalInit ==
    /\ balSubitems = <<>>
    /\ balOut = None

\* drawing.add_item(item)
BalAddItem ==
    /\ Len(balSubitems) < MaxBalItems
    /\ \E item \in BalItems : balSubitems' = DrawingContextAddItem(balSubitems, item, TRUE)
    /\ balOut' = None
    /\ UNCHANGED notBalVars

\* drawing.render(registry, Point(0, 0), 1, 2, starting_style), and the render of each
\* sub-item under the style the drawing context hands down
BalRender ==
    /\ balOut = None
    /\ \E starting_style \in EmptyStartingStyles :
          balOut' = [subitems |-> balSubitems,
                     text |-> DrawingContextRender(balSubitems, Point(0, 0), 1, 2 * Unit,
                                                   starting_style),
                     each |-> [i \in 1..Len(balSubitems) |->
                                  RenderSubitems(<<balSubitems[i]>>,
                                                 SetupRenderStyle(starting_style),
                                                 Move(Point(0, 0)), Point(0, 0)).ops]]
    /\ UNCHANGED <<balSubitems, notBalVars>>

BalNext == BalAddItem \/ BalRender

(***************************************************************************)
(* Paint specification: the caller gives the style of an item a gradient   *)
(* fill colour or a soft mask, inserts the item into a holder with         *)
(* copying, and goes on assigning attributes of the paint objects.         *)
(***************************************************************************)

MaxPaintObjects == 2

GradientUnits == {Enum("USER_SPACE_ON_USE"), Enum("OBJECT_BOUNDING_BOX")}

GradientTransforms == {TransformIdentity, TransformTranslation(Unit, 0)}

\* the item of the caller: a context that holds a rectangle
PaintItem == ContextHolding(<<Rectangle(Point(Unit, Unit), Point(2 * Unit, Unit))>>)

\* the number of paint objects created so far
PaintObjectCount == Cardinality({id \in DOMAIN pntObjects : pntObjects[id] # None})

PaintInit ==
    /\ pntObjects = [id \in 1..(MaxPaintObjects + 1) |-> None]
    /\ pntItem = PaintItem
    /\ pntHeld = None
    /\ pntAtInsert = None

\* item.style.fill_color = GradientPaint(gradient, units, gradient_transform)
PntSetGradientFill ==
    /\ PaintObjectCount < MaxPaintObjects
    /\ \E units \in GradientUnits, tf \in GradientTransforms :
          pntObjects' = [pntObjects EXCEPT
                            ![PaintObjectCount + 1] = GradientPaint(units, tf)]
    /\ pntItem' = [pntItem EXCEPT
                      !.style = set_fill_color(@, GradientPaintRef(PaintObjectCount + 1)).obj]
    /\ UNCHANGED <<pntHeld, pntAtInsert, notPaintVars>>

\* item.style.soft_mask = PaintSoftMask(mask_path, invert)
PntSetSoftMask ==
    /\ PaintObjectCount < MaxPaintObjects
    /\ \E invert \in BOOLEAN :
          pntObjects' = [pntObjects EXCEPT ![PaintObjectCount + 1] = SoftMaskObject(invert)]
    /\ pntItem' = [pntItem EXCEPT
                      !.style = set_soft_mask(@, SoftMaskRef(PaintObjectCount + 1)).obj]
    /\ UNCHANGED <<pntHeld, pntAtInsert, notPaintVars>>

\* holder.add_item(item): the holder keeps deepcopy(item)
PntInsert ==
    /\ pntHeld = None
    /\ pntHeld' = DeepcopyItem(pntItem)
    /\ pntAtInsert' = PaintObjectOps(DeepcopyItem(pntItem), pntObjects)
    /\ UNCHANGED <<pntObjects, pntItem, notPaintVars>>

\* item.style.fill_color.units = units
PntAssignUnits ==
    /\ pntItem.style.fill_color # INHERIT
    /\ \E units \in GradientUnits :
          pntObjects' = [pntObjects EXCEPT ![pntItem.style.fill_color.id].units = units]
    /\ UNCHANGED <<pntItem, pntHeld, pntAtInsert, notPaintVars>>

\* item.style.fill_color.gradient_transform = tf
PntAssignGradientTransform ==
    /\ pntItem.style.fill_color # INHERIT
    /\ \E tf \in GradientTransforms :
          pntObjects' = [pntObjects EXCEPT
                            ![pntItem.style.fill_color.id].gradient_transform = tf]
    /\ UNCHANGED <<pntItem, pntHeld, pntAtInsert, notPaintVars>>

\* item.style.soft_mask.invert = invert
PntAssignInvert ==
    /\ pntItem.style.soft_mask # INHERIT
    /\ \E invert \in BOOLEAN :
          pntObjects' = [pntObjects EXCEPT ![pntItem.style.soft_mask.id].invert = invert]
    /\ UNCHANGED <<pntItem, pntHeld, pntAtInsert, notPaintVars>>

PaintNext ==
    \/ PntSetGradientFill \/ PntSetSoftMask \/ PntInsert
    \/ PntAssignUnits \/ PntAssignGradientTransform \/ PntAssignInvert

(***************************************************************************)
(* Arc specification: from the current point of a path, arc_to or          *)
(* arc_relative adds an element, which is then measured and rendered.      *)
(***************************************************************************)

MaxArcCoord == 1

\* the points the path can be at, two units apart
ArcPoints == {Point(2 * x * Unit, 2 * y * Unit) : x, y \in 0 .. MaxArcCoord}

\* the offsets of arc_relative
ArcOffsets ==
    {Point(2 * x * Unit, 2 * y * Unit) : x, y \in (-MaxArcCoord) .. MaxArcCoord}

\* the radii (rx, ry) handed to arc_to and arc_relative; the sign of a radius is
\* ignored
ArcRadii == {Point(Unit, Unit), Point(-Unit, 2 * Unit), Point(2 * Unit, Unit), Point(0, Unit)}

ArcInit ==
    /\ arcLast = Point(0, 0)
    /\ arcEl = None
    /\ arcOut = None

\* path.move_to(x, y); arcOut holds the outcomes of the element measured last until
\* the path is changed again
ArcMoveTo ==
    /\ \E p \in ArcPoints : arcLast' = p
    /\ arcEl' = None
    /\ arcOut' = None
    /\ UNCHANGED notArcVars

\* path.arc_to(rx, ry, 0, large_arc, positive_sweep, x, y)
ArcTo ==
    /\ \E r \in ArcRadii, large_arc, positive_sweep \in BOOLEAN, end \in ArcPoints :
          /\ r.x # 0 /\ r.y # 0
                => ArcWithinModel(ArcToElement(r.x, r.y, large_arc, positive_sweep,
                                               end.x, end.y), arcLast)
          /\ arcEl' = ArcToElement(r.x, r.y, large_arc, positive_sweep, end.x, end.y)
    /\ arcOut' = None
    /\ UNCHANGED <<arcLast, notArcVars>>

\* path.arc_relative(rx, ry, 0, large_arc, positive_sweep, dx, dy), to one of the
\* points of ArcPoints
ArcRelative ==
    /\ \E r \in ArcRadii, large_arc, positive_sweep \in BOOLEAN, d \in ArcOffsets :
          /\ PointAdd(arcLast, d) \in ArcPoints
          /\ r.x # 0 /\ r.y # 0
                => ArcWithinModel(
                      AbsoluteArc(ArcRelativeElement(r.x, r.y, large_arc, positive_sweep,
                                                     d.x, d.y), arcLast), arcLast)
          /\ arcEl' = ArcRelativeElement(r.x, r.y, large_arc, positive_sweep, d.x, d.y)
    /\ arcOut' = None
    /\ UNCHANGED <<arcLast, notArcVars>>

\* the element is measured from the current point and rendered after a Move to it;
\* the path is at the end point of the element when neither raised
ArcMeasureAndRender ==
    /\ arcEl # None
    /\ arcOut' = [el       |-> arcEl,
                  last     |-> arcLast,
                  measured |-> ArcPathBoundingBox(arcEl, arcLast),
                  rendered |-> ArcPathRender(arcEl, Move(arcLast), arcLast)]
    /\ arcLast' = IF ArcPathBoundingBox(arcEl, arcLast).exc = "none"
                  THEN ArcPathBoundingBox(arcEl, arcLast).obj.pt
                  ELSE arcLast
    /\ arcEl' = None
    /\ UNCHANGED notArcVars

ArcNext == ArcMoveTo \/ ArcTo \/ ArcRelative \/ ArcMeasureAndRender

(***************************************************************************)
(* Properties of the PaintedPath builder and of PaintedPath.render          *)
(***************************************************************************)
DrawingCalls == {"line_to", "line_relative", "curve_to"}

MoveCalls == {"move_to", "move_relative"}

RECURSIVE ExpectedCloses(_, _, _)
\* what the builder calls cs ask for, read as subpaths: a drawing call opens the
\* subpath; a move or a rectangle leaves it, with an automatic close (when auto) if it
\* was open; close() closes it explicitly; at the end the paint operator comes, after
\* an automatic close if the last subpath is open
ExpectedCloses(cs, open, auto) ==
    LET h == IF open /\ auto THEN <<"h_auto">> ELSE <<>>
    IN  IF cs = <<>> THEN h \o <<"paint">>
        ELSE LET name == Head(cs).name
             IN  IF name \in DrawingCalls
                 THEN <<"draw">> \o ExpectedCloses(Tail(cs), TRUE, auto)
                 ELSE IF name \in MoveCalls THEN h \o ExpectedCloses(Tail(cs), FALSE, auto)
                 ELSE IF name = "rectangle"
                 THEN h \o <<"re">> \o ExpectedCloses(Tail(cs), FALSE, auto)
                 ELSE IF name = "close"
                 THEN <<"h_close">> \o ExpectedCloses(Tail(cs), FALSE, auto)
                 ELSE ExpectedCloses(Tail(cs), open, auto)

RECURSIVE EmittedCloses(_, _)
\* the same reading of an emitted operator sequence, from operator i on: drawing
\* operators, rectangles, automatic and explicit closes, the paint operator.  Moves
\* are left out, and so is an automatic close that directly follows a move (the
\* subpath it closes has no drawing element).
EmittedCloses(ops, i) ==
    IF i > Len(ops) THEN <<>>
    ELSE LET o == ops[i]
             this ==
                IF o.op \in {"l", "c"} THEN <<"draw">>
                ELSE IF o.op = "re" THEN <<"re">>
                ELSE IF o.op = "h" /\ o.src = "Close" THEN <<"h_close">>
                ELSE IF o.op = "h" /\ o.src = "ImplicitClose"
                        /\ ~(i > 1 /\ ops[i - 1].op = "m")
                THEN <<"h_auto">>
                ELSE IF o.src = "PaintedPath" THEN <<"paint">>
                ELSE <<>>
         IN  this \o EmittedCloses(ops, i + 1)

InTransformGroupCalls == \E i \in 1..Len(calls) : calls[i].name = "transform_group"

RenderedAutoClose == Merge(pathOut.style, path.root.style).auto_close # Bool(FALSE)

\* C2: for builder calls made outside transform_group and then render, every subpath
\* left open (a drawing element after its move, no explicit close) gets exactly one
\* automatic 'h', after its last drawing operator and before the next move or the
\* paint operator; with auto_close disabled in the merged style no automatic close
\* is emitted at all.
C2_OpenSubpathsClosedOnce ==
    (pathOut # None /\ ~InTransformGroupCalls) =>
        /\ EmittedCloses(pathOut.ops, 1) = ExpectedCloses(calls, FALSE, RenderedAutoClose)
        /\ ~RenderedAutoClose =>
              \A i \in 1..Len(pathOut.ops) : pathOut.ops[i].src # "ImplicitClose"

\* two open subpaths, each closed automatically: before the second move and before
\* the paint operator
C2_Witness ==
    /\ pathOut # None
    /\ [i \in 1..Len(calls) |-> calls[i].name] = <<"line_to", "move_to", "line_to">>
    /\ [i \in 1..Len(pathOut.ops) |-> pathOut.ops[i].op]
          = <<"q", "m", "l", "h", "m", "l", "h", "B", "Q">>
    /\ pathOut.ops[4].src = "ImplicitClose"
    /\ pathOut.ops[7].src = "ImplicitClose"

PathConstructionOps == {"m", "l", "c", "re", "h"}

PaintOps == {"S", "f", "f*", "B", "B*", "n"}

\* C5: PaintedPath.render emits the paint operator resolved from merge(ambient style,
\* path style) exactly once; every path-construction operator of the path, nested
\* groups included, comes before it, and only the closing Q of the path's own q...Q
\* bracket comes after it.
C5_PaintOperatorLast ==
    pathOut # None =>
        LET ops   == pathOut.ops
            n     == Len(ops)
            paint == Op(PaintRuleValue(ResolvePaintRule(
                            Merge(pathOut.style, path.root.style))), <<>>, "PaintedPath")
            at    == {i \in 1..n : ops[i].op \in PaintOps}
        IN  /\ Cardinality(at) = 1
            /\ \A i \in at :
                  /\ ops[i] = paint
                  /\ \A j \in 1..n : ops[j].op \in PathConstructionOps => j < i
                  /\ \/ i = n /\ n = 1
                     \/ i = n - 1 /\ ops[n].op = "Q" /\ ops[1].op = "q"

\* a rendered path with a transform group in it: the paint operator follows the
\* group's closing Q and precedes the path's own
C5_Witness ==
    /\ pathOut # None
    /\ [i \in 1..Len(pathOut.ops) |-> pathOut.ops[i].op]
          = <<"q", "m", "l", "q", "cm", "l", "Q", "h", "S", "Q">>

\* the classes of the path elements of the path specification
ElementClasses ==
    {"Move", "RelativeMove", "Line", "RelativeLine", "BezierCurve", "Rectangle",
     "RoundedRectangle", "Close"}

RECURSIVE FlatElements(_)
\* the path elements of a list of path items in rendering order, those of nested
\* contexts included, ImplicitClose left out
FlatElements(items) ==
    IF items = <<>> THEN <<>>
    ELSE (IF Head(items).cls = "GraphicsContext" THEN FlatElements(Head(items).path_items)
          ELSE IF Head(items).cls \in ElementClasses THEN <<Head(items)>>
          ELSE <<>>)
         \o FlatElements(Tail(items))

RECURSIVE ElementOps(_)
\* the operators of a rendered sequence that path elements emitted
ElementOps(ops) ==
    IF ops = <<>> THEN <<>>
    ELSE (IF Head(ops).src \in ElementClasses THEN <<Head(ops)>> ELSE <<>>)
         \o ElementOps(Tail(ops))

\* the points a subpath of the path specification can start at
AnchorPoints == {Point(x * Unit, y * Unit) : x, y \in 0..12}

\* the operands of the last move operator before operator k
LastMoveBefore(eops, k) == eops[Max({j \in 1..(k - 1) : eops[j].op = "m"})].args

\* element k + 1 is a relative move or line and its operator is written at anchor + offset
ResolvedFrom(els, eops, k, anchor) ==
    \E S \in AnchorPoints :
        /\ PointRender(S) = anchor
        /\ eops[k + 1].args = PointRender(PointAdd(S, els[k + 1].pt))

StateOperators == {"cm", "gs", "rg", "RG", "g", "G", "k", "K", "d"}

ClipOperators == {"W", "W*"}

OpNames(ops) == [i \in 1..Len(ops) |-> ops[i].op]

\* the rendered shape is a context with a clipping path and at least one path item
ClippedShapeRendered ==
    /\ clipOut # None
    /\ clipOut.of = "shape"
    /\ shape.root.clipping_path # None
    /\ shape.root.path_items # <<>>

ShapeMergedStyle == Merge(clipOut.style, shape.root.style)

\* what the shape renders to without its clipping path
UnclippedRender ==
    PaintedPathRender([shape EXCEPT !.root.clipping_path = None], clipOut.style,
                      Move(Point(0, 0)), Point(0, 0))

\* what its clipping path renders to, under the shape's merged style
ClipRender ==
    ClippingPathRender(shape.root.clipping_path, ShapeMergedStyle,
                       Move(Point(0, 0)), Point(0, 0))

\* the number of operators of the context itself at the head of a rendered context
RECURSIVE StateOpsLen(_, _)
StateOpsLen(ops, i) ==
    IF i <= Len(ops) /\ ops[i].op \in StateOperators THEN StateOpsLen(ops, i + 1)
    ELSE i - 1

\* C6: for a context with a clipping path and a path item, the clipping path's
\* operators, ending in the clip operator and 'n', come inside the context's q...Q
\* bracket, after the context's transform, state and colour operators and before the
\* first operator of its path items; the path items render as they do without the
\* clipping path, from the same last item and subpath start point.
C6_ClipBeforeItems ==
    ClippedShapeRendered =>
        LET ops  == clipOut.r.ops
            bare == UnclippedRender
            c    == ClipRender.ops
            k    == StateOpsLen(bare.ops, 2)
            m    == Len(c)
        IN  /\ ops[1].op = "q" /\ ops[Len(ops)].op = "Q"
            /\ m >= 2 /\ c[m - 1].op \in ClipOperators /\ c[m].op = "n"
            /\ Len(ops) = Len(bare.ops) + m
            /\ SubSeq(ops, 1, k) = SubSeq(bare.ops, 1, k)
            /\ SubSeq(ops, k + 1, k + m) = c
            /\ SubSeq(ops, k + m + 1, Len(ops)) = SubSeq(bare.ops, k + 1, Len(bare.ops))
            /\ bare.ops[k + 1].op \notin StateOperators
            /\ clipOut.r.last = bare.last
            /\ clipOut.r.init = bare.init

\* a translated shape drawn with a relative line and clipped by a line: the shape's
\* cm, then the clipping path, then the shape's own line
C6_Witness ==
    /\ ClippedShapeRendered
    /\ OpNames(clipOut.r.ops)
          = <<"q", "cm", "m", "l", "W", "n", "m", "l", "h", "B", "Q">>
    /\ clipOut.r.ops[2].args = <<"1", "0", "0", "1", "3", "0">>
    /\ clipOut.r.ops[4].args = <<"2", "0">>
    /\ clipOut.r.ops[8].args = <<"1", "2">>

RECURSIVE CTMAt(_, _, _, _, _)
\* the current transformation matrix in effect at operator k of ops, reading from
\* operator j on with matrix ctm and saved matrices stack: q saves, Q restores, cm
\* concatenates
CTMAt(ops, j, k, ctm, stack) ==
    IF j >= k THEN ctm
    ELSE IF ops[j].op = "q" THEN CTMAt(ops, j + 1, k, ctm, <<ctm>> \o stack)
    ELSE IF ops[j].op = "Q" THEN CTMAt(ops, j + 1, k, Head(stack), Tail(stack))
    ELSE IF ops[j].op = "cm"
    THEN CTMAt(ops, j + 1, k, TransformMatmul(ops[j].tf, ctm), stack)
    ELSE CTMAt(ops, j + 1, k, ctm, stack)

\* the place of the first operator after the clipping path's 'n'
AfterClip(ops) ==
    1 + CHOOSE i \in 1..Len(ops) : ops[i] = Op("n", <<>>, "ClippingPath")

\* what the shape renders to when its clipping path has no transform
RenderWithUntransformedClip ==
    PaintedPathRender([shape EXCEPT !.root.clipping_path.root.transform = None],
                      clipOut.style, Move(Point(0, 0)), Point(0, 0))

\* C8: a transform set on a ClippingPath applies to the clipping path's geometry only:
\* the matrix in effect when the clipped context's path items are drawn is the one in
\* effect when the clipping path has no transform.
C8_ClipTransformDoesNotLeak ==
    ClippedShapeRendered =>
        CTMAt(clipOut.r.ops, 1, AfterClip(clipOut.r.ops), TransformIdentity, <<>>)
            = CTMAt(RenderWithUntransformedClip.ops, 1,
                    AfterClip(RenderWithUntransformedClip.ops), TransformIdentity, <<>>)

(***************************************************************************)
(* Properties of the bounding_box pass                                      *)
(***************************************************************************)
\* the context of a level of the tree: a GraphicsContext, or the root context of a
\* PaintedPath
ContextOf(item) == IF item.cls = "GraphicsContext" THEN item ELSE item.root

IsLevel(item) == item.cls \in {"GraphicsContext", "PaintedPath", "ClippingPath"}

RECURSIVE Geometry(_, _, _, _)
\* the union of the leaf elements' boxes of items[i..], each mapped through the
\* transforms accumulated down to it (tf at this level), with the end point and the
\* largest row norms of the accumulated transforms; every nested level, context or
\* painted path, is entered the same way and adds nothing of its own
Geometry(items, i, g, tf) ==
    IF i > Len(items) THEN g
    ELSE IF IsLevel(items[i])
    THEN LET c   == ContextOf(items[i])
             ctf == TransformMatmul(tf, TransformOrIdentity(c.transform))
             sub == Geometry(c.path_items, 1,
                             Walked(BoundingBoxEmpty, g.pt, RowNorms(ctf)[1], RowNorms(ctf)[2]),
                             ctf)
         IN  Geometry(items, i + 1,
                      Walked(BoundingBoxMerge(g.bbox, sub.bbox), sub.pt,
                             Max({g.nx, sub.nx}), Max({g.ny, sub.ny})),
                      tf)
    ELSE LET m == PrimitiveBoundingBox(items[i], g.pt)
         IN  Geometry(items, i + 1,
                      Walked(BoundingBoxMerge(g.bbox, transformed(m.bbox, tf)), m.pt,
                             g.nx, g.ny),
                      tf)

\* the geometry of the whole tree, from Point(0, 0)
BoxGeometry ==
    Geometry(<<box>>, 1, Walked(BoundingBoxEmpty, Point(0, 0), 1, 1), TransformIdentity)

\* the style resolved at the level bounding_box was called on strokes visibly
BoxStrokes ==
    LET s == ContextOf(box).style
    IN  /\ ResolvePaintRule(s) \in StrokingRules
        /\ s.stroke_opacity # Num(0)
        /\ s.stroke_width # Num(0)

BoxHalfWidth == EffectiveStrokeWidth(ContextOf(box).style) \div 2

\* C9: the bounding box of a tree is the union of its leaf elements' boxes mapped
\* through the accumulated transforms, inflated exactly once, by half the stroke width
\* of the style of the level bounding_box was called on times the largest row norm
\* found anywhere in the subtree; no nested context or painted path adds an inflation,
\* and nothing is added when that style has no stroke, stroke opacity 0 or width 0.
C9_InflatedExactlyOnce ==
    boxOut # None =>
        LET g == BoxGeometry
        IN  boxOut.bbox =
              IF g.bbox.empty \/ ~BoxStrokes THEN g.bbox
              ELSE BoundingBox(g.bbox.x0 - BoxHalfWidth * g.nx, g.bbox.y0 - BoxHalfWidth * g.ny,
                               g.bbox.x1 + BoxHalfWidth * g.nx, g.bbox.y1 + BoxHalfWidth * g.ny)

(***************************************************************************)
(* Properties of copy-on-insert                                             *)
(***************************************************************************)
\* C1: an item added to a DrawingContext or a GraphicsContext with the default copy
\* renders and measures, at every later time, as it did when it was added, whatever
\* the caller has done to the object since (path elements, style properties,
\* transform, clipping path); an item added without the copy is the caller's object.
C1_CopyOnInsert ==
    /\ \A i \in 1..Len(subitems) :
          IF subitemsLog[i].copy
          THEN /\ subitems[i] # CallerRef
               /\ HeldRender(subitems[i]) = subitemsLog[i].rendered
          ELSE Deref(subitems[i]) = callerItem
    /\ \A i \in 1..Len(holder.path_items) :
          IF holderLog[i].copy
          THEN /\ holder.path_items[i] # CallerRef
               /\ HeldRender(holder.path_items[i]) = holderLog[i].rendered
               /\ HeldBox(holder.path_items[i]) = holderLog[i].measured
          ELSE Deref(holder.path_items[i]) = callerItem

\* the caller's object was added to the GraphicsContext with the copy and to the
\* DrawingContext without, and has changed since: it now renders and measures
\* otherwise than the copy does, and the DrawingContext renders it as it is now
C1_Witness ==
    /\ Len(holderLog) = 1 /\ holderLog[1].copy
    /\ Len(subitemsLog) = 1 /\ ~subitemsLog[1].copy
    /\ HeldRender(callerItem) # holderLog[1].rendered
    /\ HeldBox(callerItem) # holderLog[1].measured
    /\ HeldRender(subitems[1]) # subitemsLog[1].rendered
    /\ HeldRender(subitems[1]) = HeldRender(callerItem)

(***************************************************************************)
(* Properties of GraphicsStyle.merge and resolve_paint_rule                 *)
(***************************************************************************)
\* C3: for every merge property p, merge(parent, child).p is child.p when child.p is
\* not INHERIT (None counts as set) and parent.p otherwise, whatever side effects the
\* setters had during the merge; the merge leaves parent and child as they were.
C3_MergeTakesChildElseParent ==
    [][(stylePc.phase = "build" /\ stylePc'.phase = "merged") =>
          /\ \A p \in PropertyNames :
                merged'[p] = IF child[p] # INHERIT THEN child[p] ELSE parent[p]
          /\ parent' = parent
          /\ child' = child]_vars

\* a merge in which the child carries a stroke colour but inherits the stroke width
\* from a parent that has none: the setter's default width of 1 is overwritten
C3_Witness ==
    /\ stylePc.phase = "merged"
    /\ child.stroke_color = DeviceGray(0, None)
    /\ child.stroke_width = INHERIT
    /\ parent.stroke_width = INHERIT
    /\ merged.stroke_color = DeviceGray(0, None)
    /\ merged.stroke_width = INHERIT

\* the table of the paint rules, by presence of stroke and fill
PaintRuleTable(s) ==
    LET stroke == s.stroke_width # None /\ s.stroke_color # None
        fill   == s.fill_color # None
        ir     == s.intersection_rule
    IN  IF ~stroke /\ ~fill THEN Enum("DONT_PAINT")
        ELSE IF stroke /\ ~fill THEN Enum("STROKE")
        ELSE IF ~stroke /\ ir = Enum("NONZERO") THEN Enum("FILL_NONZERO")
        ELSE IF ~stroke /\ ir = Enum("EVENODD") THEN Enum("FILL_EVENODD")
        ELSE IF stroke /\ ir = Enum("EVENODD") THEN Enum("STROKE_FILL_EVENODD")
        ELSE Enum("STROKE_FILL_NONZERO")

\* C4: with paint_rule AUTO the resolved rule follows the table (stroke present iff
\* stroke width and stroke colour are both non-null, fill present iff the fill colour
\* is non-null, a combination outside the table gives STROKE_FILL_NONZERO); a concrete
\* rule is returned unchanged.
C4_ResolvePaintRuleTable ==
    stylePc.phase = "resolved" =>
        /\ merged.paint_rule = Enum("AUTO") => resolved = PaintRuleTable(merged)
        /\ (merged.paint_rule # Enum("AUTO") /\ merged.paint_rule # INHERIT) =>
              resolved = merged.paint_rule

\* AUTO resolved for a style with a stroke and an explicit absence of fill
C4_Witness ==
    /\ stylePc.phase = "resolved"
    /\ merged.paint_rule = Enum("AUTO")
    /\ merged.fill_color = None
    /\ merged.stroke_color # None
    /\ merged.stroke_width = Num(Unit)
    /\ resolved = Enum("STROKE")

(***************************************************************************)
(* Properties of number_to_str                                              *)
(***************************************************************************)
\* the number n rounded at Precision decimal places, as a signed count of
\* 10^-Precision
RoundedValue(n) == IF n < 0 THEN -RoundToPrecision(-n) ELSE RoundToPrecision(n)

\* C12 as stated: a number that rounds to zero at 4 decimal places is written "0"
\* whatever its sign, and two numbers that are equal after rounding are written the
\* same.
C12_NeverNegativeZero ==
    numOut # None =>
        /\ RoundedValue(numA) = 0 => numOut.a = "0"
        /\ RoundedValue(numA) = RoundedValue(numB) => numOut.a = numOut.b

\* C12 as the code has it: a number that rounds to zero is written "0" when it is zero
\* or positive and "-0" when it is negative; two numbers that are equal after
\* rounding are written the same unless they round to zero from different sides, and
\* two numbers written the same are equal after rounding.
C12_NegativeZeroKept ==
    numOut # None =>
        /\ RoundedValue(numA) = 0 => numOut.a = IF numA < 0 THEN "-0" ELSE "0"
        /\ (RoundedValue(numA) = RoundedValue(numB)
               /\ (RoundedValue(numA) = 0 => (numA < 0) = (numB < 0)))
              => numOut.a = numOut.b
        /\ numOut.a = numOut.b => RoundedValue(numA) = RoundedValue(numB)

\* -0.00004 and 0.00003 both round to zero and are written "-0" and "0"
C12_Witness ==
    /\ numOut # None
    /\ numA = -4
    /\ numB = 3
    /\ numOut.a = "-0"
    /\ numOut.b = "0"

(***************************************************************************)
(* Properties of BoundingBox.merge                                          *)
(***************************************************************************)
\* C13: for all bounding boxes A and B, the empty sentinel included,
\* A.merge(B) == B.merge(A) and A.merge(BoundingBox.empty()) == A under
\* BoundingBox.__eq__.
C13_MergeCommutesEmptyIsIdentity ==
    mergeOut # None => mergeOut.commutes /\ mergeOut.identity

\* the same for boxes that are not the empty sentinel, where it holds; and whatever ==
\* says, merging with the empty sentinel returns the other operand itself
MergeOfValidBoxes ==
    mergeOut # None =>
        /\ mergeOut.ae = mergeA
        /\ mergeA.empty => mergeOut.ab = mergeB /\ mergeOut.ba = mergeB
        /\ ~mergeA.empty => mergeOut.identity
        /\ (~mergeA.empty \/ ~mergeB.empty) => mergeOut.commutes

(***************************************************************************)
(* Properties of the grouping of merges                                     *)
(***************************************************************************)
NoneInherited(s) == \A p \in PropertyNames : s[p] # INHERIT

\* C14: when no property of merge(merge(A, B), C) is left at INHERIT, it has the same
\* value for every property as merge(A, merge(B, C)).
C14_MergeAssociative ==
    (assocOut # None /\ NoneInherited(assocOut.left)) =>
        \A p \in PropertyNames : assocOut.left[p] = assocOut.right[p]

\* A has every property assigned, B adds a fill colour with alpha, C unsets the
\* stroke width: both groupings give B's colour and alpha and C's width
C14_Witness ==
    /\ assocOut # None
    /\ NoneInherited(assocStyles.A)
    /\ assocStyles.B.fill_color = DeviceRGB(Unit, 0, 0, Num(Unit \div 2))
    /\ assocStyles.C.stroke_width = None
    /\ NoneInherited(assocOut.left)
    /\ assocOut.left.fill_opacity = Num(Unit \div 2)
    /\ assocOut.left.stroke_width = None
    /\ assocOut.right = assocOut.left

\* the two groupings agree on every property whether or not one is left at INHERIT
MergeGroupingsAgree == assocOut # None => assocOut.left = assocOut.right

(***************************************************************************)
(* Properties of Transform.inverse                                          *)
(***************************************************************************)
Determinant(tf) == tf.a * tf.d - tf.b * tf.c

\* C15: T.inverse() raises ValueError exactly when the determinant of T is zero, and
\* otherwise P @ T @ T.inverse() is P (here exactly: each coordinate's numerator is the
\* coordinate of P times the common denominator).
C15_InverseRoundTrip ==
    invOut # None =>
        /\ invOut.inv.exc = (IF Determinant(invT) = 0 THEN "ValueError" ELSE "none")
        /\ Determinant(invT) # 0 =>
              /\ invOut.back.den # 0
              /\ invOut.back.x = invP.x * invOut.back.den
              /\ invOut.back.y = invP.y * invOut.back.den

\* a transform with shear, translation and determinant 3, and a point off the origin
C15_Witness ==
    /\ invOut # None
    /\ invT = Transform(2, 1, -1, 1, 3 * Unit, -Unit)
    /\ invP = Point(-(Unit \div 2), 2 * Unit)
    /\ invOut.inv.exc = "none"
    /\ invOut.back.den = 3
    /\ invOut.back.x = -3 * (Unit \div 2)

(***************************************************************************)
(* Properties of the gradient stop normalisation                           *)
(***************************************************************************)
\* the offsets of the stops of a gradient: 0, its bounds, 1
GradientOffsets(g) == <<0>> \o g.bounds \o <<Unit>>

ClampedOffsets(stops) == {ClampOffset(stops[i].off) : i \in DOMAIN stops}

\* the colour of the stop latest in input order among those clamped to x
LatestColorAt(stops, x) ==
    stops[CHOOSE i \in DOMAIN stops :
              /\ ClampOffset(stops[i].off) = x
              /\ \A j \in DOMAIN stops : ClampOffset(stops[j].off) = x => j <= i].color

LeastOf(S) == CHOOSE x \in S : \A y \in S : x <= y

GreatestOf(S) == CHOOSE x \in S : \A y \in S : y <= x

\* the colour the normalised list holds at x: that of the latest input stop there,
\* at a missing endpoint that of the nearest offset that has a stop
ColorExpectedAt(stops, x) ==
    IF x \in ClampedOffsets(stops) THEN LatestColorAt(stops, x)
    ELSE IF x = 0 THEN LatestColorAt(stops, LeastOf(ClampedOffsets(stops)))
    ELSE LatestColorAt(stops, GreatestOf(ClampedOffsets(stops)))

\* the offsets the normalised list holds: the clamped offsets with both ends, and
\* the two ends alone when every stop is clamped to the same offset
OffsetsExpected(stops) ==
    IF Cardinality(ClampedOffsets(stops)) = 1 THEN {0, Unit}
    ELSE ClampedOffsets(stops) \cup {0, Unit}

NormalizedAsStated(stops, res) ==
    /\ res.exc = "none"
    /\ Len(res.obj.colors) = Len(GradientOffsets(res.obj))
    /\ \A k \in DOMAIN GradientOffsets(res.obj) :
          /\ 0 <= GradientOffsets(res.obj)[k] /\ GradientOffsets(res.obj)[k] <= Unit
          /\ k > 1 => GradientOffsets(res.obj)[k - 1] < GradientOffsets(res.obj)[k]
    /\ {GradientOffsets(res.obj)[k] : k \in DOMAIN GradientOffsets(res.obj)}
          = OffsetsExpected(stops)
    /\ res.obj.colors
          = ConvertColors([k \in DOMAIN GradientOffsets(res.obj) |->
                              ColorExpectedAt(stops, GradientOffsets(res.obj)[k])]).obj.colors

\* C16: for every non-empty list of stops (and a radius that is not negative),
\* shape_linear_gradient and shape_radial_gradient return a gradient whose stop
\* offsets lie in [0, 1], increase strictly, begin at 0 and end at 1 and are the
\* clamped input offsets with the two ends; the colour at an offset is that of the
\* latest input stop clamped to it, a missing end takes the colour of the nearest
\* offset that has a stop, and stops that all share one offset give two stops of the
\* kept colour at 0 and 1.
C16_StopsNormalized ==
    (/\ gradOut # None
     /\ gradStops # <<>>
     /\ gradOut.r # None => gradOut.r.v >= 0)
    => NormalizedAsStated(gradStops, gradOut.res)

\* out of order, a duplicated offset, both ends missing: the radial gradient holds
\* blue at 0 and 1/4, the later gray (as RGB, next to blue) at 1/2 and 1
C16_Witness ==
    /\ gradStops = <<GradientStop(Unit \div 2, DeviceRGB(Unit, 0, 0, None)),
                     GradientStop(Unit \div 4, DeviceRGB(0, 0, Unit, None)),
                     GradientStop(Unit \div 2, DeviceGray(Unit \div 2, None))>>
    /\ gradOut # None
    /\ gradOut.fn = "shape_radial_gradient"
    /\ gradOut.r = Num(Unit)
    /\ gradOut.res.exc = "none"
    /\ gradOut.res.obj.bounds = <<Unit \div 4, Unit \div 2>>
    /\ gradOut.res.obj.colors
          = <<DeviceRGB(0, 0, Unit, None), DeviceRGB(0, 0, Unit, None),
              DeviceRGB(Unit \div 2, Unit \div 2, Unit \div 2, None),
              DeviceRGB(Unit \div 2, Unit \div 2, Unit \div 2, None)>>

\* an empty list of stops, and a negative radius, are refused
EmptyStopsRefused ==
    (gradOut # None /\ (gradStops = <<>> \/ (gradOut.r # None /\ gradOut.r.v < 0)))
    => gradOut.res.exc = "ValueError"

(***************************************************************************)
(* Properties of Gradient._convert_colors                                  *)
(***************************************************************************)
\* the colour spaces of the colours given, each taken as the Device* instance it
\* is or is converted to
SpacesGiven(colors) == {convert_to_device_color(colors[i]).t : i \in DOMAIN colors}

\* the red, green and blue components that show a gray or RGB colour
ShownAs(c) == IF c.t = "DeviceGray" THEN <<c.v[1], c.v[1], c.v[1]>> ELSE c.v

AllAchromatic(colors) ==
    \A i \in DOMAIN colors :
        ShownAs(convert_to_device_color(colors[i]))[1]
            = ShownAs(convert_to_device_color(colors[i]))[2]
        /\ ShownAs(convert_to_device_color(colors[i]))[2]
            = ShownAs(convert_to_device_color(colors[i]))[3]

SpaceExpected(colors) ==
    IF SpacesGiven(colors) = {"DeviceCMYK"} THEN "DeviceCMYK"
    ELSE IF SpacesGiven(colors) = {"DeviceGray", "DeviceRGB"} THEN "DeviceRGB"
    ELSE IF SpacesGiven(colors) = {"DeviceGray"} THEN "DeviceGray"
    ELSE IF AllAchromatic(colors) THEN "DeviceGray"
    ELSE "DeviceRGB"

\* C17: for every list of at least two colours, constructing a Gradient raises
\* ValueError exactly when a CMYK colour is mixed with a gray or RGB colour, and
\* otherwise yields a palette with as many colours, in the same order, each in the
\* reported colour space: CMYK for all-CMYK, RGB for a gray and RGB mixture, gray
\* for all-gray, and for all-RGB gray iff every colour is achromatic.
C17_PaletteInOneSpace ==
    (palOut # None /\ Len(palColors) >= 2)
    => /\ palOut.exc \in {"none", "ValueError"}
       /\ palOut.exc = "ValueError"
             <=> ("DeviceCMYK" \in SpacesGiven(palColors)
                  /\ SpacesGiven(palColors) # {"DeviceCMYK"})
       /\ palOut.exc = "none"
             => /\ Len(palOut.obj.colors) = Len(palColors)
                /\ Len(palOut.obj.alphas) = Len(palColors)
                /\ palOut.obj.color_space = SpaceExpected(palColors)
                /\ \A i \in DOMAIN palColors :
                      /\ palOut.obj.colors[i].t = palOut.obj.color_space
                      /\ ShownAs(palOut.obj.colors[i])
                            = ShownAs(convert_to_device_color(palColors[i]))

\* a gray with alpha, a red, and the tuple (0, 0, 0): an RGB palette in that order
C17_Witness ==
    /\ palColors = <<DeviceGray(Unit \div 2, Num(Unit \div 2)), DeviceRGB(Unit, 0, 0, None),
                     ColorTuple(0, 0, 0)>>
    /\ palOut # None
    /\ palOut.exc = "none"
    /\ palOut.obj.color_space = "DeviceRGB"
    /\ palOut.obj.colors = <<DeviceRGB(Unit \div 2, Unit \div 2, Unit \div 2, None),
                             DeviceRGB(Unit, 0, 0, None), DeviceRGB(0, 0, 0, None)>>
    /\ palOut.obj.alphas = <<Unit \div 2, Unit, Unit>>

\* CMYK next to another space is refused, whatever the order
CMYKMixtureRefused ==
    (/\ palOut # None
     /\ \E i, j \in DOMAIN palColors :
           palColors[i].t = "DeviceCMYK" /\ palColors[j].t # "DeviceCMYK")
    => palOut.exc = "ValueError"

\* fewer than two colours are refused
TooFewColorsRefused ==
    (palOut # None /\ Len(palColors) < 2) => palOut.exc = "ValueError"

(***************************************************************************)
(* Properties of PaintComposite.render                                     *)
(***************************************************************************)
\* the operand the composite was built with
OperandOf(out, which) == IF which = "source" THEN out.source ELSE out.backdrop

OtherOperand(which) == IF which = "source" THEN "backdrop" ELSE "source"

\* the operand `which`, with a soft mask taken from the other operand
MaskedByOther(out, which, invert) ==
    with_mask(OperandOf(out, which), OperandOf(out, OtherOperand(which)), invert)

RECURSIVE RenderInOrder(_, _, _, _)
\* the paths rendered one after the other, each after what the one before left
RenderInOrder(paths, style, last_item, initial_point) ==
    IF paths = <<>> THEN Rendered(<<>>, last_item, initial_point)
    ELSE LET r == PaintedPathRender(Head(paths), style, last_item, initial_point)
             rest == RenderInOrder(Tail(paths), style, r.last, r.init)
         IN  Rendered(r.ops \o rest.ops, rest.last, rest.init)

\* what a draw step may be: one operand, as it is or masked by the other operand,
\* the mask inverted or not
DrawSteps ==
    {[draw |-> d, masked |-> m, invert |-> i] :
        d \in {"source", "backdrop"}, m \in BOOLEAN, i \in BOOLEAN}

DrawStepPath(out, st) ==
    IF st.masked THEN MaskedByOther(out, st.draw, st.invert) ELSE OperandOf(out, st.draw)

DrawStepLists == {<<a>> : a \in DrawSteps} \cup {<<a, b>> : a, b \in DrawSteps}

\* the result is that of drawing the paths in order after the incoming last item and
\* start point
Draws(out, paths) ==
    out.res = RenderInOrder(paths, DrawingStyle, out.last_item, out.initial_point)

\* C18: PaintComposite.render performs the step list of its mode in order.  CLEAR is
\* the only mode without steps and returns nothing drawn, with the incoming last item
\* and start point; every other mode draws one or two steps, each an operand alone or
\* masked by the other operand; source-in draws the source masked by the backdrop,
\* source-out the source masked by the inverted backdrop, xor each operand masked by
\* the inverse of the other.
C18_CompositeSteps ==
    /\ \A mode \in CompositingOperations :
          /\ MODES[mode] = <<>> <=> mode = "CLEAR"
          /\ Len(MODES[mode]) <= 2
          /\ \A i \in DOMAIN MODES[mode] :
                /\ MODES[mode][i].draw \in {"source", "backdrop"}
                /\ MODES[mode][i].mask_from # None
                      => MODES[mode][i].mask_from = Str(OtherOperand(MODES[mode][i].draw))
    /\ compOut # None =>
          /\ compOut.mode = "CLEAR"
                => compOut.res = Rendered(<<>>, compOut.last_item, compOut.initial_point)
          /\ compOut.mode # "CLEAR"
                => \E steps \in DrawStepLists :
                      Draws(compOut, [i \in DOMAIN steps |-> DrawStepPath(compOut, steps[i])])
          /\ compOut.mode = "SOURCE_IN"
                => Draws(compOut, <<MaskedByOther(compOut, "source", FALSE)>>)
          /\ compOut.mode = "SOURCE_OUT"
                => Draws(compOut, <<MaskedByOther(compOut, "source", TRUE)>>)
          /\ compOut.mode = "XOR"
                => \/ Draws(compOut, <<MaskedByOther(compOut, "source", TRUE),
                                       MaskedByOther(compOut, "backdrop", TRUE)>>)
                   \/ Draws(compOut, <<MaskedByOther(compOut, "backdrop", TRUE),
                                       MaskedByOther(compOut, "source", TRUE)>>)

\* the "gs" operators of a rendered text
GsOperators(ops) == SelectSeq(ops, LAMBDA o : o.op = "gs")

\* xor of a backdrop with one line and a red source with one line: two steps, each
\* under a graphics state of its own (the two soft masks differ)
C18_Witness ==
    /\ compOut # None
    /\ compOut.mode = "XOR"
    /\ compOut.backdrop = line_to(NewPaintedPath(0, 0), Unit, 0)
    /\ compOut.source.root.style.fill_color = DeviceRGB(Unit, 0, 0, None)
    /\ OperandCalls(compOut.source) = 2
    /\ compOut.last_item = Line(Point(Unit, Unit))
    /\ Len(GsOperators(compOut.res.ops)) = 2
    /\ GsOperators(compOut.res.ops)[1] # GsOperators(compOut.res.ops)[2]
    /\ compOut.res.ops
          # RenderInOrder(<<compOut.source, compOut.backdrop>>, DrawingStyle,
                           compOut.last_item, compOut.initial_point).ops

\* the modes differ in what they draw: with operands that differ, no two modes
\* render the same text
ModesDistinguished ==
    (/\ compOut # None
     /\ OperandCalls(compOut.backdrop) > 0
     /\ OperandCalls(compOut.source) > 0)
    => \A mode \in CompositingOperations \ {compOut.mode} :
          PaintCompositeRender(NewPaintComposite(compOut.backdrop, compOut.source, mode),
                               DrawingStyle, compOut.last_item, compOut.initial_point).ops
             # compOut.res.ops

(***************************************************************************)
(* Properties of assignments to a GraphicsStyle                            *)
(***************************************************************************)
LastAssignment == <<asgOut.name, asgOut.value>>

\* C19: assigning an invalid value to a GraphicsStyle property raises TypeError or
\* ValueError (AttributeError for an unknown name) and leaves every property of the
\* style at the value it had before.
C19_InvalidAssignmentLeavesStyle ==
    (asgOut # None /\ LastAssignment \in InvalidAssignments)
    => /\ asgOut.exc \in {"TypeError", "ValueError", "AttributeError"}
       /\ asgOut.exc = "AttributeError" <=> asgOut.name \notin PropertyNames
       /\ asgStyle = asgOut.before

\* every invalid assignment raises, and every assignment that raises for the value
\* itself (not for the alpha a colour carries) leaves the style as it was
RefusedAssignmentLeavesStyle ==
    (asgOut # None /\ LastAssignment \in InvalidAssignments)
    => /\ asgOut.exc \in {"TypeError", "ValueError", "AttributeError"}
       /\ asgOut.exc = "AttributeError" <=> asgOut.name \notin PropertyNames
       /\ LastAssignment \in RefusedByType => asgStyle = asgOut.before

\* a colour whose alpha is out of range is refused with ValueError after the colour
\* has been stored: the colour property has changed, the opacity (and, for
\* stroke_color, the stroke width) has not
ColorStoredBeforeAlphaRefused ==
    (asgOut # None /\ asgOut.value \in ColorsWithAlphaOutOfRange)
    => /\ asgOut.exc = "ValueError"
       /\ asgStyle = [asgOut.before EXCEPT ![asgOut.name] = asgOut.value]

\* a red fill with opacity 1/2 is in place; stroke_color = DeviceGray(0) with alpha 2
\* raises ValueError and the style now holds that stroke colour
C19_StrokeColorKept ==
    /\ asgOut # None
    /\ asgOut.name = "stroke_color"
    /\ asgOut.value = DeviceGray(0, Num(2 * Unit))
    /\ asgOut.before.fill_color = DeviceRGB(0, 0, Unit, Num(Unit \div 2))
    /\ asgOut.before.stroke_color = INHERIT
    /\ asgOut.exc = "ValueError"
    /\ asgStyle.stroke_color = DeviceGray(0, Num(2 * Unit))
    /\ asgStyle.stroke_opacity = INHERIT
    /\ asgStyle.stroke_width = INHERIT

\* valid assignments return, coupled properties included
ValidAssignmentReturns ==
    (asgOut # None /\ LastAssignment \in ValidAssignments) => asgOut.exc = "none"

(***************************************************************************)
(* Properties of copies of a path inside a transform_group                  *)
(***************************************************************************)
\* the item list of the container the last call was made on
ListOfLastCall ==
    IF heapLast.call = "DrawingContext.add_item" THEN subitems
    ELSE IF heapLast.call = "GraphicsContext.add_item" THEN holder.path_items
    ELSE <<>>

\* C20: the deep copy of a PaintedPath, and with it add_item with copying on a
\* DrawingContext or a GraphicsContext, raises RuntimeError while a transform_group
\* block of the path is open, and the container's item list is as before; with
\* every group exited the same call returns and the list has gained the copy.
C20_CopyInsideGroupRefused ==
    (heapLast # None /\ heapLast.copy)
    => IF callerItem.groups # <<>>
       THEN /\ heapLast.exc = "RuntimeError"
            /\ ListOfLastCall = heapLast.before
       ELSE /\ heapLast.exc = "none"
            /\ heapLast.call # "deepcopy"
                  => ListOfLastCall = Append(heapLast.before, DeepcopyItem(callerItem))

\* add_item with copying was refused inside the group and, the group exited, the
\* same call has added the copy, which holds the group
C20_Witness ==
    /\ heapLast # None
    /\ heapLast.call = "DrawingContext.add_item"
    /\ heapLast.copy
    /\ heapLast.exc = "none"
    /\ heapRefused = 1
    /\ callerItem.groups = <<>>
    /\ Len(callerItem.root.path_items) = 1
    /\ callerItem.root.path_items[1].cls = "GraphicsContext"
    /\ subitems = <<DeepcopyItem(callerItem)>>

\* without copying the call returns inside a group as well: the container holds the
\* caller's object
AddWithoutCopyAccepted ==
    (heapLast # None /\ ~heapLast.copy)
    => /\ heapLast.exc = "none"
       /\ ListOfLastCall = Append(heapLast.before, CallerRef)

\* a call is refused only inside a group
RefusedOnlyInsideGroup ==
    [][heapRefused' # heapRefused => callerItem.groups # <<>>]_vars

(***************************************************************************)
(* Properties of the degenerate shapes                                     *)
(***************************************************************************)

\* width and height both zero
ZeroSized(el) == el.size.x = 0 /\ el.size.y = 0

\* a zero radius
ZeroRadius(el) == el.radii.x = 0 \/ el.radii.y = 0

\* the shapes the statement calls fully degenerate
FullyDegenerate(el) ==
    \/ (el.cls \in {"Rectangle", "RoundedRectangle"} /\ ZeroSized(el))
    \/ (el.cls = "Ellipse" /\ ZeroRadius(el))

\* C21 as stated: for a Rectangle or RoundedRectangle whose width and height are
\* both zero, and for an Ellipse with a zero radius, bounding_box returns the empty
\* sentinel, so merging it leaves any enclosing box unchanged.
C21_DegenerateShapeIsEmpty ==
    (degOut # None /\ FullyDegenerate(degOut.el))
        => /\ degOut.measured.bbox = BoundingBoxEmpty
           /\ degOut.merged = degOut.enclosing

\* C21, amended: a RoundedRectangle whose width and height are both zero and an
\* Ellipse with a zero radius return the empty sentinel, so merging it leaves any
\* enclosing box unchanged; a Rectangle whose width and height are both zero returns
\* the valid box that holds its origin alone, and merging it gives the box of the
\* enclosing box and that point.
C21_DegenerateShapes ==
    degOut # None =>
        /\ ((degOut.el.cls = "RoundedRectangle" /\ ZeroSized(degOut.el))
            \/ (degOut.el.cls = "Ellipse" /\ ZeroRadius(degOut.el)))
              => /\ degOut.measured.bbox = BoundingBoxEmpty
                 /\ degOut.merged = degOut.enclosing
        /\ (degOut.el.cls = "Rectangle" /\ ZeroSized(degOut.el))
              => /\ degOut.measured.bbox =
                        BoundingBox(degOut.el.org.x, degOut.el.org.y,
                                    degOut.el.org.x, degOut.el.org.y)
                 /\ is_valid(degOut.measured.bbox)
                 /\ degOut.merged =
                        IF degOut.enclosing.empty THEN degOut.measured.bbox
                        ELSE BoundingBox(Min({degOut.enclosing.x0, degOut.el.org.x}),
                                         Min({degOut.enclosing.y0, degOut.el.org.y}),
                                         Max({degOut.enclosing.x1, degOut.el.org.x}),
                                         Max({degOut.enclosing.y1, degOut.el.org.y}))

\* an Ellipse with one zero radius was measured and merged into a box that is not empty
C21_Witness ==
    /\ degOut # None
    /\ degOut.el.cls = "Ellipse"
    /\ degOut.el.radii.x = 0
    /\ degOut.el.radii.y # 0
    /\ ~degOut.enclosing.empty
    /\ degOut.merged = degOut.enclosing

\* a zero-sized Rectangle outside the enclosing box extends it
ZeroSizedRectangleExtends ==
    ~(/\ degOut # None
      /\ degOut.el.cls = "Rectangle"
      /\ ZeroSized(degOut.el)
      /\ ~degOut.enclosing.empty
      /\ degOut.merged # degOut.enclosing)

\* the shapes that are not degenerate have the box of their extent
ProperShapeHasItsExtent ==
    degOut # None =>
        /\ (degOut.el.cls = "Ellipse" /\ ~ZeroRadius(degOut.el))
              => degOut.measured.bbox =
                    BoundingBox(degOut.el.center.x - Abs(degOut.el.radii.x),
                                degOut.el.center.y - Abs(degOut.el.radii.y),
                                degOut.el.center.x + Abs(degOut.el.radii.x),
                                degOut.el.center.y + Abs(degOut.el.radii.y))
        /\ (degOut.el.cls = "RoundedRectangle" /\ ~ZeroSized(degOut.el))
              => degOut.measured.bbox =
                    from_points(<<degOut.el.org, PointAdd(degOut.el.org, degOut.el.size)>>)

(***************************************************************************)
(* Properties of the bounding box of a cubic Bezier curve                  *)
(***************************************************************************)

\* the values of one coordinate of the curve at every grid point of t
SampledValues(p0, p1, p2, p3) ==
    {eval_cubic_bezier_1d(k, p0, p1, p2, p3) : k \in 0 .. Samples}

\* the box obtained by sampling the curve at every grid point
SampledBox(start, curve) ==
    BoundingBox(Min(SampledValues(start.x, curve.c1.x, curve.c2.x, curve.end.x)),
                Min(SampledValues(start.y, curve.c1.y, curve.c2.y, curve.end.y)),
                Max(SampledValues(start.x, curve.c1.x, curve.c2.x, curve.end.x)),
                Max(SampledValues(start.y, curve.c1.y, curve.c2.y, curve.end.y)))

\* the coefficient of t^2 in the derivative of the x coordinate
DerivativeA(start, curve) == -3 * start.x + 9 * curve.c1.x - 9 * curve.c2.x + 3 * curve.end.x

\* the coefficient of t in the derivative of the x coordinate
DerivativeB(start, curve) == 6 * start.x - 12 * curve.c1.x + 6 * curve.c2.x

\* C22: for all start points and control points of a cubic Bezier curve, the
\* closed-form bounding box (end points plus the curve at the in-range roots of the
\* derivative on each axis) equals the box obtained by sampling the curve at every
\* grid point, including when the derivative degenerates to linear or constant; the
\* end point returned is the end of the curve.
C22_BezierBoxIsCurveBox ==
    bezOut # None =>
        /\ bezOut.measured.bbox = SampledBox(bezOut.start, bezOut.curve)
        /\ bezOut.measured.pt = bezOut.curve.end

\* a curve was measured whose box reaches beyond its two end points on the x axis,
\* the derivative being a proper quadratic
C22_Witness ==
    /\ bezOut # None
    /\ DerivativeA(bezOut.start, bezOut.curve) # 0
    /\ bezOut.measured.bbox.x1 >
          Samples * Samples * Samples * Max({bezOut.start.x, bezOut.curve.end.x})
    /\ bezOut.measured.bbox.x0 <
          Samples * Samples * Samples * Min({bezOut.start.x, bezOut.curve.end.x})

\* a curve whose derivative is linear reaches beyond its end points
LinearDerivativeMeasured ==
    ~(/\ bezOut # None
      /\ DerivativeA(bezOut.start, bezOut.curve) = 0
      /\ DerivativeB(bezOut.start, bezOut.curve) # 0
      /\ bezOut.measured.bbox.x1 >
            Samples * Samples * Samples * Max({bezOut.start.x, bezOut.curve.end.x}))

\* a curve whose derivative is constant has the box of its end points
ConstantDerivativeMeasured ==
    (/\ bezOut # None
     /\ DerivativeA(bezOut.start, bezOut.curve) = 0
     /\ DerivativeB(bezOut.start, bezOut.curve) = 0)
        => /\ bezOut.measured.bbox.x0 =
                Samples * Samples * Samples * Min({bezOut.start.x, bezOut.curve.end.x})
           /\ bezOut.measured.bbox.x1 =
                Samples * Samples * Samples * Max({bezOut.start.x, bezOut.curve.end.x})

(***************************************************************************)
(* Properties of the state operators of nested contexts                    *)
(***************************************************************************)

\* the position of the k-th "q" of a rendered text from position i on
RECURSIVE NthSave(_, _, _)
NthSave(ops, k, i) ==
    IF i > Len(ops) THEN 0
    ELSE IF ops[i].op = "q"
         THEN IF k = 1 THEN i ELSE NthSave(ops, k - 1, i + 1)
         ELSE NthSave(ops, k, i + 1)

\* the operators from position i on up to the first that is not a state operator
RECURSIVE StateRun(_, _)
StateRun(ops, i) ==
    IF i > Len(ops) \/ ops[i].op \notin StateOperators THEN <<>>
    ELSE <<ops[i]>> \o StateRun(ops, i + 1)

\* what the k-th context of a rendered text emits between its "q" and its first item
LevelHeader(ops, k) == StateRun(ops, NthSave(ops, k, 1) + 1)

\* the words of a sequence of operators
OperatorWords(ops) == [i \in 1..Len(ops) |-> ops[i].op]

\* the style that is ambient for a level, and the level's merged style
AmbientOf(styles, l) ==
    IF l = "outer" THEN styles["ambient"] ELSE Merge(styles["ambient"], styles["outer"])

MergedOf(styles, l) == Merge(AmbientOf(styles, l), styles[l])

\* the header of a level of the rendered tree: the outer context is the first to
\* save the state, the inner context the second
HeaderOf(out, l) == LevelHeader(out.ops, IF l = "outer" THEN 1 ELSE 2)

EmitsGs(out, l) == \E i \in 1..Len(HeaderOf(out, l)) : HeaderOf(out, l)[i].op = "gs"

\* the properties the graphics-state dictionary carries
GsProperties ==
    {"fill_opacity", "stroke_opacity", "blend_mode", "stroke_width", "stroke_cap_style",
     "stroke_join_style", "stroke_miter_limit", "soft_mask",
     "stroke_dash_pattern", "stroke_dash_phase"}

\* the merged style differs from the ambient one in a property of the dictionary
DiffersFromAmbient(styles, l) ==
    \E k \in GsProperties : MergedOf(styles, l)[k] # AmbientOf(styles, l)[k]

IsSet(v) == v # INHERIT /\ v # None

\* the properties of the dictionary that a level's own style sets, those of
\* TRANSPARENCY_KEYS left out when the merged style does not allow transparency
OwnGsProperties(styles, l) ==
    {k \in GsProperties \ {"stroke_dash_pattern", "stroke_dash_phase"} :
        /\ IsSet(styles[l][k])
        /\ (k \in TRANSPARENCY_KEYS => MergedOf(styles, l).allow_transparency # Bool(FALSE))}

\* the dash pattern the level registers is not empty: its own, or the merged one when
\* the merged dash settings differ from the ambient ones
RegistersDash(styles, l) ==
    \/ /\ styles[l].stroke_dash_pattern # INHERIT
       /\ styles[l].stroke_dash_pattern.v # <<>>
    \/ /\ \/ MergedOf(styles, l).stroke_dash_pattern # AmbientOf(styles, l).stroke_dash_pattern
          \/ MergedOf(styles, l).stroke_dash_phase # AmbientOf(styles, l).stroke_dash_phase
       /\ MergedOf(styles, l).stroke_dash_pattern # INHERIT
       /\ MergedOf(styles, l).stroke_dash_pattern.v # <<>>

FillWords == {"rg", "g", "k"}

StrokeWords == {"RG", "G", "K"}

\* the colour operators a style's own colours call for: the fill colour, then the
\* stroke colour
OwnColorOps(s) ==
    (IF IsSet(s.fill_color) THEN <<ColorSerialize(s.fill_color, FALSE)>> ELSE <<>>)
    \o (IF IsSet(s.stroke_color) THEN <<ColorSerialize(s.stroke_color, TRUE)>> ELSE <<>>)

\* the colour operators of a sequence of operators
ColorOperatorsIn(ops) == SelectSeq(ops, LAMBDA o : o.op \in FillWords \cup StrokeWords)

\* C24: a fill (stroke) colour operator is emitted at exactly those levels whose own,
\* non-merged style sets a concrete fill (stroke) colour: a level that inherits its
\* colour, or sets it to None, emits no colour operator, and every level that sets a
\* colour emits it right after its q / transform / gs tokens and before its path
\* items.
C24_ColorsFromOwnStyle ==
    ctxOut # None =>
        /\ \A l \in {"outer", "inner"} :
              /\ ColorOperatorsIn(HeaderOf(ctxOut, l)) = OwnColorOps(ctxOut.styles[l])
              /\ \A i, j \in 1..Len(HeaderOf(ctxOut, l)) :
                    (/\ HeaderOf(ctxOut, l)[i].op \in {"cm", "gs"}
                     /\ HeaderOf(ctxOut, l)[j].op \in FillWords \cup StrokeWords) => i < j
              /\ \A i \in 1..Len(HeaderOf(ctxOut, l)) :
                    HeaderOf(ctxOut, l)[i].op \in {"cm", "gs", "d"} \cup FillWords \cup StrokeWords
        /\ Len(ColorOperatorsIn(ctxOut.ops))
              = Len(OwnColorOps(ctxOut.styles["outer"])) + Len(OwnColorOps(ctxOut.styles["inner"]))

\* the inner context, which has a transform and emits "gs", sets a fill colour and
\* emits it, while the outer context inherits its colours and emits none
C24_Witness ==
    /\ ctxOut # None
    /\ ctxOut.transform # None
    /\ OperatorWords(HeaderOf(ctxOut, "inner")) = <<"cm", "gs", "rg">>
    /\ ColorOperatorsIn(HeaderOf(ctxOut, "outer")) = <<>>

\* a level whose fill colour is set to None emits no colour although the ambient style
\* has one
NoneColorEmitsNothing ==
    (/\ ctxOut # None
     /\ ctxOut.styles["inner"].fill_color = None)
        => \A i \in 1..Len(HeaderOf(ctxOut, "inner")) :
              HeaderOf(ctxOut, "inner")[i].op \notin FillWords

(***************************************************************************)
(* Properties of the items that hold no path element                       *)
(***************************************************************************)

RECURSIVE HoldsNoElement(_)
\* the item holds no path element, at any depth
HoldsNoElement(item) ==
    CASE item.cls = "GraphicsContext" ->
            \A i \in 1..Len(item.path_items) : HoldsNoElement(item.path_items[i])
      [] item.cls \in {"PaintedPath", "ClippingPath"} -> HoldsNoElement(item.root)
      [] OTHER -> FALSE

\* C25 as stated: a subtree that contains no path items produces no operators at all;
\* an empty GraphicsContext, a PaintedPath or ClippingPath to which no element was ever
\* added, and a DrawingContext all of whose items are empty each render to the empty
\* string, with no q/Q, no state operator and no paint or clip operator.
C25_EmptySubtreeRendersNothing ==
    emOut # None =>
        /\ \A i \in 1..Len(emOut.subitems) :
              HoldsNoElement(emOut.subitems[i]) => emOut.each[i] = <<>>
        /\ (\A i \in 1..Len(emOut.subitems) : HoldsNoElement(emOut.subitems[i]))
              => emOut.text = <<>>

\* what the code does: a GraphicsContext without items renders nothing, and so does
\* a DrawingContext that holds nothing else; a PaintedPath without elements renders
\* its paint operator alone, a ClippingPath without elements its clip operator and
\* paint operator, and a context that holds an item renders q and Q whatever the
\* item renders
EmptyItemsAsRendered ==
    emOut # None =>
        /\ \A i \in 1..Len(emOut.subitems) :
              /\ emOut.subitems[i] = NewGraphicsContext => emOut.each[i] = <<>>
              /\ emOut.subitems[i] = NewPaintedPath(0, 0)
                    => OperatorWords(emOut.each[i]) = <<"B">>
              /\ emOut.subitems[i] = NewClippingPath(0, 0)
                    => OperatorWords(emOut.each[i]) = <<"W", "n">>
              /\ emOut.subitems[i] = ContextHolding(<<NewGraphicsContext>>)
                    => OperatorWords(emOut.each[i]) = <<"q", "Q">>
              /\ emOut.subitems[i] = ContextHolding(<<NewPaintedPath(0, 0)>>)
                    => OperatorWords(emOut.each[i]) = <<"q", "B", "Q">>
        /\ (\A i \in 1..Len(emOut.subitems) : emOut.subitems[i] = NewGraphicsContext)
              => emOut.text = <<>>

\* a DrawingContext that holds one PaintedPath without elements was rendered, and its
\* text is not empty
C25_EmptyPathRendered ==
    ~(/\ emOut # None
      /\ emOut.subitems = <<NewPaintedPath(0, 0)>>
      /\ emOut.text # <<>>)

(***************************************************************************)
(* Properties of automatic closing across transform groups                 *)
(***************************************************************************)

\* C26 as stated: for builder calls that include transform_group blocks, rendering
\* with auto_close enabled emits exactly one 'h' for every subpath left open, after
\* the last drawing operator of the subpath it closes, including when the subpath was
\* started inside a transform group or a move was issued inside one; no automatic
\* close is dropped or emitted ahead of elements of its own subpath.
C26_ClosedAcrossTransformGroups ==
    (pathOut # None /\ InTransformGroupCalls /\ RenderedAutoClose) =>
        EmittedCloses(pathOut.ops, 1) = ExpectedCloses(calls, FALSE, TRUE)

\* the position of the first transform_group call
FirstGroupCall == CHOOSE i \in 1..Len(calls) :
                    /\ calls[i].name = "transform_group"
                    /\ \A j \in 1..(i - 1) : calls[j].name # "transform_group"

\* the subpath that is open when the group is entered was started before it, and no
\* subpath is started or left after that
SubpathStartedBeforeGroup ==
    /\ InTransformGroupCalls
    /\ FirstGroupCall > 1
    /\ calls[FirstGroupCall - 1].name \in DrawingCalls
    /\ \A j \in FirstGroupCall..Len(calls) :
          calls[j].name \in DrawingCalls \cup {"transform_group", "style"}

\* what holds across transform groups: a subpath started outside the group and
\* continued inside it is closed once, after the group
ClosedWhenStartedBeforeGroup ==
    (pathOut # None /\ RenderedAutoClose /\ SubpathStartedBeforeGroup) =>
        EmittedCloses(pathOut.ops, 1) = ExpectedCloses(calls, FALSE, TRUE)

\* a subpath that is started inside a transform group and left open is rendered
\* without any 'h'
C26_CloseLost ==
    ~(/\ pathOut # None
      /\ RenderedAutoClose
      /\ [i \in 1..Len(calls) |-> calls[i].name] = <<"transform_group", "line_to">>
      /\ \A i \in 1..Len(pathOut.ops) : pathOut.ops[i].op # "h")

(***************************************************************************)
(* Properties of the current point in the two passes                       *)
(***************************************************************************)

\* the point lies in the box
Encloses(b, pt) ==
    ~b.empty /\ b.x0 <= pt.x /\ pt.x <= b.x1 /\ b.y0 <= pt.y /\ pt.y <= b.y1

\* the elements whose render emits the coordinates of their end point
EmitsEndPoint(el) == el.cls \in {"Move", "RelativeMove", "Line", "RelativeLine"}

\* the elements that draw to their end point
DrawsToEndPoint(el) == el.cls \in {"Line", "RelativeLine"}

\* C27 as stated: along any sequence of path elements, the point that bounding_box
\* hands to the next element equals the end point of the resolved element that render
\* hands to the next element, in particular after an explicit Close (both continue
\* from the subpath's starting point), so the computed bounding box encloses every
\* coordinate that render emits for a drawn element.
C27_PassesAgreeOnCurrentPoint ==
    agOut # None =>
        \A k \in 1..Len(agOut.seq) :
            /\ agOut.measured[k].pt = EndPoint(agOut.rendered[k].last)
            /\ DrawsToEndPoint(agOut.seq[k])
                  => Encloses(agOut.measured[Len(agOut.seq)].bbox,
                              EndPoint(agOut.rendered[k].last))

\* an explicit Close occurs among the first k elements
CloseAmong(seq, k) == \E i \in 1..k : seq[i].cls = "Close"

\* what holds: as long as no explicit Close has occurred the two passes agree on the
\* current point and the box encloses the end point of every drawn element; after a
\* Close render continues from the subpath's starting point while bounding_box
\* continues from the point the Close was reached at
PassesAgreeWithoutClose ==
    agOut # None =>
        \A k \in 1..Len(agOut.seq) :
            /\ ~CloseAmong(agOut.seq, k) =>
                  /\ agOut.measured[k].pt = EndPoint(agOut.rendered[k].last)
                  /\ DrawsToEndPoint(agOut.seq[k])
                        => Encloses(agOut.measured[Len(agOut.seq)].bbox,
                                    EndPoint(agOut.rendered[k].last))
            /\ agOut.seq[k].cls = "Close" =>
                  /\ EndPoint(agOut.rendered[k].last) = agOut.rendered[k].init
                  /\ agOut.measured[k].pt =
                        IF k = 1 THEN Point(0, 0) ELSE agOut.measured[k - 1].pt

\* a line, a Close and a relative line: the relative line is rendered from the
\* subpath's starting point to a point outside the computed box
C27_PointOutsideBox ==
    ~(/\ agOut # None
      /\ agOut.seq = <<Line(Point(3 * Unit, Unit)), Close, RelativeLine(Point(-Unit, 2 * Unit))>>
      /\ EndPoint(agOut.rendered[3].last) = Point(-Unit, 2 * Unit)
      /\ agOut.measured[3].pt = Point(2 * Unit, 3 * Unit)
      /\ ~Encloses(agOut.measured[3].bbox, EndPoint(agOut.rendered[3].last)))

(***************************************************************************)
(* Properties of the save and restore operators                            *)
(***************************************************************************)

RECURSIVE SaveDepth(_, _)
\* the number of q minus the number of Q among the first n operators
SaveDepth(ops, n) ==
    IF n = 0 THEN 0
    ELSE SaveDepth(ops, n - 1)
         + (IF ops[n].op = "q" THEN 1 ELSE IF ops[n].op = "Q" THEN -1 ELSE 0)

\* no prefix holds more Q than q, and the whole holds as many of each
Balanced(ops) ==
    /\ \A n \in 0..Len(ops) : SaveDepth(ops, n) >= 0
    /\ SaveDepth(ops, Len(ops)) = 0

\* C28: for any tree of DrawingContext, GraphicsContext, PaintedPath, ClippingPath and
\* PaintComposite items, the rendered operators have balanced save/restore operators:
\* no prefix of the sequence contains more Q than q, and the whole sequence contains
\* equally many of each.
C28_SaveRestoreBalanced ==
    balOut # None =>
        /\ Balanced(balOut.text)
        /\ \A i \in 1..Len(balOut.subitems) : Balanced(balOut.each[i])

\* a drawing context that holds a composite and a context with a clipped, transformed
\* context inside was rendered: the text nests three levels deep and holds a clip
C28_Witness ==
    /\ balOut # None
    /\ Len(balOut.subitems) = 2
    /\ balOut.subitems[1].cls = "PaintComposite"
    /\ balOut.subitems[2].cls = "GraphicsContext"
    /\ \E n \in 1..Len(balOut.text) : SaveDepth(balOut.text, n) >= 4
    /\ \E n \in 1..Len(balOut.text) : balOut.text[n].op \in ClipOperators

(***************************************************************************)
(* Properties of the paint objects of an inserted copy                     *)
(***************************************************************************)

\* C29 as stated: after an item is inserted with copying, changing a GradientPaint
\* (its units or gradient transform) or a soft mask that the original item's style
\* refers to does not change what the inserted copy renders.
C29_CopyIsolatedFromPaintObjects ==
    pntHeld # None => PaintObjectOps(pntHeld, pntObjects) = pntAtInsert

\* what the code does: the style of the copy refers to the very paint objects the
\* style of the original referred to when the copy was made
CopySharesPaintObjects ==
    [][pntHeld = None /\ pntHeld' # None =>
          /\ pntHeld'.style.fill_color = pntItem.style.fill_color
          /\ pntHeld'.style.soft_mask = pntItem.style.soft_mask]_vars

\* the path items and the properties that are values are copied: what the caller
\* does to the item afterwards leaves the copy as it was
C29_HeldUnchanged == [][pntHeld # None => pntHeld' = pntHeld]_vars

\* the units of the gradient were changed after the insertion and the copy renders a
\* different pattern matrix than it did when it was inserted
C29_CopyChanged ==
    ~(/\ pntHeld # None
      /\ pntAtInsert.fill # None
      /\ PaintObjectOps(pntHeld, pntObjects).fill # pntAtInsert.fill
      /\ pntHeld.style.fill_color = pntItem.style.fill_color)

(***************************************************************************)
(* Properties of arcs that end where they start                            *)
(***************************************************************************)

\* the element measured was an arc with non-zero radii whose end point is the
\* current point
ZeroLengthArc ==
    /\ arcOut # None
    /\ \/ arcOut.el.cls = "Arc" /\ arcOut.el.pt = arcOut.last
       \/ arcOut.el.cls = "RelativeArc" /\ arcOut.el.pt = Point(0, 0)

\* C30 as stated: measuring or rendering an arc with non-zero radii whose end point
\* equals the current point completes without raising and contributes no curve
\* segment and no geometry.
C30_ZeroLengthArcIsEmpty ==
    ZeroLengthArc =>
        /\ arcOut.measured.exc = "none"
        /\ arcOut.rendered.exc = "none"
        /\ arcOut.rendered.obj.ops = <<>>
        /\ arcOut.measured.obj.bbox = BoundingBoxEmpty

\* what the code does: both passes raise ZeroDivisionError on such an arc
ZeroLengthArcRaises ==
    ZeroLengthArc =>
        /\ arcOut.measured.exc = "ZeroDivisionError"
        /\ arcOut.rendered.exc = "ZeroDivisionError"

\* an arc between two different points completes, ends in its end point and its box
\* holds both of its ends; so does the line that a zero radius gives, also to the
\* current point
OtherArcsComplete ==
    arcOut # None /\ ~ZeroLengthArc =>
        /\ arcOut.measured.exc = "none"
        /\ arcOut.rendered.exc = "none"
        /\ EndPoint(arcOut.rendered.obj.last) = arcOut.measured.obj.pt
        /\ arcOut.measured.obj.bbox.x0 <= arcOut.last.x
        /\ arcOut.last.x <= arcOut.measured.obj.bbox.x1
        /\ arcOut.measured.obj.bbox.y0 <= arcOut.measured.obj.pt.y
        /\ arcOut.measured.obj.pt.y <= arcOut.measured.obj.bbox.y1

\* arc_to to the point the path is at has raised in both passes
C30_ZeroLengthArcRaised ==
    ~(/\ ZeroLengthArc
      /\ arcOut.el.cls = "Arc"
      /\ arcOut.measured.exc = "ZeroDivisionError"
      /\ arcOut.rendered.exc = "ZeroDivisionError")

\* a half turn has been rendered as two curves
HalfTurnRendered ==
    ~(/\ arcOut # None
      /\ arcOut.el.cls = "Arc"
      /\ arcOut.rendered.exc = "none"
      /\ Len(arcOut.rendered.obj.ops) = 2)

(***************************************************************************)
(* Specifications                                                          *)
(***************************************************************************)
Init == StyleInit /\ ElemInit /\ PathInit /\ ClipInit /\ BoxInit /\ HeapInit /\ NumInit /\ BoxMergeInit /\ AssocInit /\ InvInit /\ GradInit /\ PalInit /\ CompInit /\ AsgInit /\ DegenInit /\ BezInit /\ CtxInit /\ EmptyInit /\ AgreeInit /\ BalInit /\ PaintInit /\ ArcInit

SpecStyle == Init /\ [][StyleNext]_vars

SpecElem == Init /\ [][ElemNext]_vars

SpecPath == Init /\ [][PathNext]_vars

SpecClip == Init /\ [][ClipNext]_vars

SpecBox == Init /\ [][BoxNext]_vars

SpecHeap == Init /\ [][HeapNext]_vars

SpecNum == Init /\ [][NumNext]_vars

SpecBoxMerge == Init /\ [][BoxMergeNext]_vars

SpecAssoc == Init /\ [][AssocNext]_vars

SpecInv == Init /\ [][InvNext]_vars

SpecGrad == Init /\ [][GradNext]_vars

SpecPal == Init /\ [][PalNext]_vars

SpecComp == Init /\ [][CompNext]_vars

SpecAsg == Init /\ [][AsgNext]_vars

SpecDegen == Init /\ [][DegenNext]_vars

SpecBez == Init /\ [][BezNext]_vars

SpecCtx == Init /\ [][CtxNext]_vars

SpecEmpty == Init /\ [][EmptyNext]_vars

SpecAgree == Init /\ [][AgreeNext]_vars

SpecBal == Init /\ [][BalNext]_vars

SpecPaint == Init /\ [][PaintNext]_vars

SpecArc == Init /\ [][ArcNext]_vars

====
